---- MODULE Spec2Model ----
(***************************************************************************)
(* SNC-Meister: the admission-control server (SNC-Meister.cpp), the        *)
(* network-calculus registry (NC.cpp), the SNC analysis (SNC.cpp) and the  *)
(* priority policy (priorityAlgoBySLO.cpp), as one state machine.          *)
(*                                                                         *)
(* Numbers.  The code computes with IEEE doubles.  The model keeps a       *)
(* double as a record: a finite value on an integer grid, +infinity, or    *)
(* NaN, and evaluates every bound at one representative theta.  The        *)
(* transcendental terms of the bound equations are replaced by integer     *)
(* surrogates that keep their sign and their domain: the logarithm of a    *)
(* negative number is NaN and the logarithm of zero is infinite, as in the *)
(* code.  Which flows enter a bound, in which order, under which operator  *)
(* and with which dependency marks is modelled as the code builds it.      *)
(***************************************************************************)
EXTENDS Integers, Sequences, FiniteSets, TLC

VARIABLES
    nc,               \* the global NC* nc: the registry (NC.hpp:100-108)
    clientInfoStore,  \* map<ClientId, Json::Value> clientInfoStore
    result,           \* the static result of the RPC handler that ran last
    clientIds,        \* add_clients: its local set<ClientId> clientIds at return
    affectedFlows,    \* add_clients: its local set<FlowIndex> affectedFlows at return
    sent,             \* RPCs the last handler sent to NetEnforcer, in order
    running,          \* FALSE once an assert() of the code has failed (abort)
    dp,               \* a DependencyParams object that setP, setQ, ... act on
    dpCall,           \* the member function of dp called last, with its argument
    pool,             \* SNC operators constructed from arrivals and services
    search,           \* a LatencyBound with dependent nodes and the run of
                      \* dependencyOptimization on it
    mgf,              \* an MGF object and the calcMGF call made last on it
    hop,              \* the hop-by-hop analysis run last on nc, when nc is
                      \* used as a library object
    aggregation,      \* the call of aggregateArrivals made last on operators
                      \* of the pool, with the groups after every arrival
    enforcer          \* NetEnforcer: g_clients, g_nextId, the TC filters installed
                      \* and the RPC handled last

\* the variables of the server, and those of the SNC operators taken alone
serverVars ==
    <<nc, clientInfoStore, result, clientIds, affectedFlows, sent, running>>
opVars == <<dp, dpCall, pool, search, mgf, hop, aggregation, enforcer>>
vars == <<serverVars, opVars>>

-----------------------------------------------------------------------------
(* Bounds of the model *)

\* add_clients calls stop once this many client ids have been handed out
MaxClients == 3
\* add_queue calls stop once this many queue ids have been handed out
MaxQueues == 3
\* longest clientInfos array given to add_clients
MaxBatch == 2
\* flows in one clientInfo of the inputs
MaxFlowsPerClient == 2

-----------------------------------------------------------------------------
(* Doubles: finite (integer grid), +infinity, NaN *)

Fin(n) == [k |-> "fin", v |-> n]
PosInf == [k |-> "inf", v |-> 0]
NaN == [k |-> "nan", v |-> 0]

\* a + b on non-negative doubles
DAdd(a, b) ==
    IF a.k = "nan" \/ b.k = "nan" THEN NaN
    ELSE IF a.k = "inf" \/ b.k = "inf" THEN PosInf
    ELSE Fin(a.v + b.v)

\* a > b: false whenever an operand is NaN
DGreater(a, b) ==
    IF a.k = "nan" \/ b.k = "nan" THEN FALSE
    ELSE IF a.k = "inf" THEN b.k = "fin"
    ELSE IF b.k = "inf" THEN FALSE
    ELSE a.v > b.v

\* a <= b: false whenever an operand is NaN
DLessEq(a, b) ==
    IF a.k = "nan" \/ b.k = "nan" THEN FALSE
    ELSE IF b.k = "inf" THEN TRUE
    ELSE IF a.k = "inf" THEN FALSE
    ELSE a.v <= b.v

-----------------------------------------------------------------------------
(* Small helpers *)

Range(s) == {s[i] : i \in 1..Len(s)}

\* the elements of a finite set of integers in increasing order, as std::set
\* and std::map iterate
RECURSIVE SortedSeq(_)
SortedSeq(S) ==
    IF S = {} THEN <<>>
    ELSE LET m == CHOOSE x \in S : \A y \in S : x <= y
         IN <<m>> \o SortedSeq(S \ {m})

\* m with key k bound to v (operator[] assignment of std::map)
MapPut(m, k, v) == [x \in DOMAIN m \cup {k} |-> IF x = k THEN v ELSE m[x]]

\* m without key k (std::map::erase)
MapErase(m, k) == [x \in DOMAIN m \ {k} |-> m[x]]

EmptyMap == [x \in {} |-> 0]

-----------------------------------------------------------------------------
(* NC.hpp: ids and read-only accessors *)

InvalidFlowId == 0
InvalidClientId == 0
InvalidQueueId == 0

getFlowIdByName(n, name) ==
    IF name \in DOMAIN n.flowIds THEN n.flowIds[name] ELSE InvalidFlowId

getClientIdByName(n, name) ==
    IF name \in DOMAIN n.clientIds THEN n.clientIds[name] ELSE InvalidClientId

getQueueIdByName(n, name) ==
    IF name \in DOMAIN n.queueIds THEN n.queueIds[name] ELSE InvalidQueueId

\* NC::NC(): empty maps, the id counters one past the invalid id
NCInit ==
    [flows |-> EmptyMap, clients |-> EmptyMap, queues |-> EmptyMap,
     flowIds |-> EmptyMap, clientIds |-> EmptyMap, queueIds |-> EmptyMap,
     nextFlowId |-> InvalidFlowId + 1,
     nextClientId |-> InvalidClientId + 1,
     nextQueueId |-> InvalidQueueId + 1]

-----------------------------------------------------------------------------
(* NC.cpp / SNC.cpp: initQueue, initClient, initFlow, addClient, delClient *)

\* NC::initQueue (SNC::initQueue only allocates the SNCQueue)
initQueue(n, queueInfo) ==
    LET queueId == n.nextQueueId
        q == [queueId |-> queueId, name |-> queueInfo.name,
              flows |-> <<>>, bandwidth |-> queueInfo.bandwidth]
    IN [n EXCEPT !.nextQueueId = queueId + 1,
                 !.queues = MapPut(n.queues, queueId, q),
                 !.queueIds = MapPut(n.queueIds, q.name, queueId)]

addQueue(n, queueInfo) == initQueue(n, queueInfo)

\* NC::delQueue; its assert(q->flows.empty()) is checked by the caller
delQueue(n, queueId) ==
    [n EXCEPT !.queueIds = MapErase(n.queueIds, n.queues[queueId].name),
              !.queues = MapErase(n.queues, queueId)]

\* SLO percentiles are kept in tenths of a percent: 99.9 is 999
DefaultSLOpercentile == 999
FullPercentile == 1000

\* NC::initClient
initClient(n, clientInfo) ==
    LET clientId == n.nextClientId
        c == [clientId |-> clientId, name |-> clientInfo.name,
              flowIds |-> <<>>, SLO |-> clientInfo.SLO,
              SLOpercentile |-> IF "SLOpercentile" \in DOMAIN clientInfo
                                THEN clientInfo.SLOpercentile
                                ELSE DefaultSLOpercentile,
              latency |-> Fin(0)]
    IN [n EXCEPT !.nextClientId = clientId + 1,
                 !.clients = MapPut(n.clients, clientId, c),
                 !.clientIds = MapPut(n.clientIds, c.name, clientId)]

\* queue q's flow list after flow flowId, whose path is queueIds, has been
\* pushed back once for every position at which q is on the path
RECURSIVE PushFlowIndexes(_, _, _, _, _)
PushFlowIndexes(flowsOfQ, q, flowId, queueIds, index) ==
    IF index > Len(queueIds) THEN flowsOfQ
    ELSE PushFlowIndexes(
            IF queueIds[index] = q
            THEN Append(flowsOfQ, [flowId |-> flowId, index |-> index - 1])
            ELSE flowsOfQ,
            q, flowId, queueIds, index + 1)

\* NC::initFlow followed by the SNC part of SNC::initFlow.  epsilon is the
\* fraction num/den: 1 - SLOpercentile/100 over c->flowIds.size(), the size
\* being read after NC::initFlow has pushed this flow
initFlow(n, flowInfo, clientId) ==
    LET flowId == n.nextFlowId
        queueIds == [i \in 1..Len(flowInfo.queues) |->
                        getQueueIdByName(n, flowInfo.queues[i])]
        c == n.clients[clientId]
        flowIdsOfC == Append(c.flowIds, flowId)
        f == [flowId |-> flowId, name |-> flowInfo.name, clientId |-> clientId,
              queueIds |-> queueIds,
              priority |-> IF "priority" \in DOMAIN flowInfo
                           THEN flowInfo.priority ELSE 1,
              latency |-> Fin(0),
              arrival |-> [rate |-> flowInfo.arrivalInfo,
                           dependencies |-> {flowId}],
              epsilon |-> [num |-> FullPercentile - c.SLOpercentile,
                           den |-> FullPercentile * Len(flowIdsOfC)]]
    IN [n EXCEPT
          !.nextFlowId = flowId + 1,
          !.flows = MapPut(n.flows, flowId, f),
          !.flowIds = MapPut(n.flowIds, f.name, flowId),
          !.clients = [n.clients EXCEPT ![clientId].flowIds = flowIdsOfC],
          !.queues = [q \in DOMAIN n.queues |->
                        [n.queues[q] EXCEPT !.flows =
                            PushFlowIndexes(n.queues[q].flows, q, flowId,
                                            queueIds, 1)]]]

RECURSIVE initFlows(_, _, _, _)
initFlows(n, clientFlowInfos, flowIndex, clientId) ==
    IF flowIndex > Len(clientFlowInfos) THEN n
    ELSE initFlows(initFlow(n, clientFlowInfos[flowIndex], clientId),
                   clientFlowInfos, flowIndex + 1, clientId)

\* NC::addClient: the id it returns is n.nextClientId
addClient(n, clientInfo) ==
    initFlows(initClient(n, clientInfo), clientInfo.flows, 1, n.nextClientId)

\* q->flows after erasing the first entry of flowId, if any
RECURSIVE EraseFirst(_, _)
EraseFirst(flowsOfQ, flowId) ==
    IF flowsOfQ = <<>> THEN <<>>
    ELSE IF Head(flowsOfQ).flowId = flowId THEN Tail(flowsOfQ)
    ELSE <<Head(flowsOfQ)>> \o EraseFirst(Tail(flowsOfQ), flowId)

\* NC::delClient, inner loop: for each position of the flow's path, erase
\* the flow's first entry from that queue's list
RECURSIVE delFlowFromQueues(_, _, _, _)
delFlowFromQueues(queues, flowId, queueIds, index) ==
    IF index > Len(queueIds) THEN queues
    ELSE delFlowFromQueues(
            [queues EXCEPT ![queueIds[index]].flows =
                EraseFirst(queues[queueIds[index]].flows, flowId)],
            flowId, queueIds, index + 1)

\* a flow loop of delClient that leaves the flows' names in _flowIds
RECURSIVE delFlowsKeepNames(_, _, _)
delFlowsKeepNames(n, flowIdsOfC, flowIndex) ==
    IF flowIndex > Len(flowIdsOfC) THEN n
    ELSE LET flowId == flowIdsOfC[flowIndex]
             f == n.flows[flowId]
         IN delFlowsKeepNames(
                [n EXCEPT !.queues = delFlowFromQueues(n.queues, flowId,
                                                       f.queueIds, 1),
                          !.flows = MapErase(n.flows, flowId)],
                flowIdsOfC, flowIndex + 1)

RECURSIVE delFlows(_, _, _)
delFlows(n, flowIdsOfC, flowIndex) ==
    IF flowIndex > Len(flowIdsOfC) THEN n
    ELSE LET flowId == flowIdsOfC[flowIndex]
             f == n.flows[flowId]
         IN delFlows(
                [n EXCEPT !.queues = delFlowFromQueues(n.queues, flowId,
                                                       f.queueIds, 1),
                          !.flowIds = MapErase(n.flowIds, f.name),
                          !.flows = MapErase(n.flows, flowId)],
                flowIdsOfC, flowIndex + 1)

\* a deletion that erases the client and leaves its flows registered
delClientKeepFlows(n, clientId) ==
    [n EXCEPT !.clientIds = MapErase(n.clientIds, n.clients[clientId].name),
              !.clients = MapErase(n.clients, clientId)]

\* NC::delClient
delClient(n, clientId) ==
    LET c == n.clients[clientId]
        Erase(n1) == [n1 EXCEPT !.clientIds = MapErase(n1.clientIds, c.name),
                                !.clients = MapErase(n1.clients, clientId)]
    IN Erase(delFlows(n, c.flowIds, 1))

\* NC::setFlowPriority
setFlowPriority(n, flowId, priority) ==
    [n EXCEPT !.flows[flowId].priority = priority]

-----------------------------------------------------------------------------
(* SNCOperators.hpp / SNCOperators.cpp: DependencyParams and the operators *)

\* rho values are kept in hundredths of a work unit per step, so that the
\* factor 0.99 of ConvolutionService::calcBound stays on the grid
RhoUnit == 100
\* growth of an MMBP arrival's rho when theta doubles (the effective
\* bandwidth log(spectralRadius(theta))/theta grows with theta)
Burst == 20
\* scale of the surrogate of -log(1 - exp(-x))
LogScale == 1000

\* DependencyParams::checkDependence: the merge scan of the two sorted
\* dependency sets, stopping at the first common flow id
\* a scan that compares the smallest flow ids of the two sets only
MergeScanHeads(A, B, itA, itB) ==
    IF itA > Len(A) \/ itB > Len(B) THEN FALSE ELSE A[itA] = B[itB]

RECURSIVE MergeScan(_, _, _, _)
MergeScan(A, B, itA, itB) ==
    IF itA > Len(A) \/ itB > Len(B) THEN FALSE
    ELSE IF A[itA] = B[itB] THEN TRUE
    ELSE IF A[itA] < B[itB] THEN MergeScan(A, B, itA + 1, itB)
    ELSE MergeScan(A, B, itA, itB + 1)

checkDependence(this, bound) ==
    MergeScan(SortedSeq(this.dependencies), SortedSeq(bound.dependencies), 1, 1)

\* The doubles of _p, _q and the four bracket ends: a ratio num/den in
\* lowest terms, a finite double above 2^54 (Huge, for which 1.0 - 1.0/x
\* rounds to 1.0), +infinity or NaN
RECURSIVE GCD(_, _)
GCD(a, b) == IF b = 0 THEN a ELSE GCD(b, a % b)
Ratio(num, den) ==
    [k |-> "ratio", num |-> num \div GCD(num, den), den |-> den \div GCD(num, den)]
Huge == [k |-> "huge"]
One == Ratio(1, 1)

\* x <= 1.0, which is false for NaN
LessEqOne(x) == x.k = "ratio" /\ x.num <= x.den

\* 1.0 / (1.0 - (1.0 / x)) for a double x that is not <= 1.0
Conjugate(x) ==
    IF x = NaN THEN NaN
    ELSE IF x = PosInf \/ x = Huge THEN One
    ELSE Ratio(x.num, x.num - x.den)

\* DependencyParams::DependencyParams(); dependentBounds lists "this" once
\* for every setDependent
DependencyParams ==
    [p |-> One, q |-> One, lowerP |-> One, upperP |-> One,
     lowerQ |-> One, upperQ |-> One, dependentBounds |-> <<>>]

\* "Set to be independent"
Independent(d) ==
    [d EXCEPT !.p = One, !.q = One, !.lowerP = One, !.upperP = One,
              !.lowerQ = One, !.upperQ = One]

setP(d, p) ==
    IF LessEqOne(p) THEN Independent(d)
    ELSE [d EXCEPT !.p = p, !.q = Conjugate(p)]

\* a setQ that stores q and leaves _p as it is
setQOnly(d, q) ==
    IF LessEqOne(q) THEN Independent(d) ELSE [d EXCEPT !.q = q]

setQ(d, q) ==
    IF LessEqOne(q) THEN Independent(d)
    ELSE [d EXCEPT !.p = Conjugate(q), !.q = q]

resetOptBounds(d) ==
    setP([d EXCEPT !.lowerP = Ratio(1001, 1000), !.upperP = Ratio(2, 1),
                   !.lowerQ = Ratio(1001, 1000), !.upperQ = Ratio(2, 1)],
         Ratio(2, 1))

setDependent(d) ==
    [resetOptBounds(d) EXCEPT
        !.dependentBounds = Append(d.dependentBounds, "this")]

\* what getDependentBounds lists of a node: the node without its children
Descr(node) == [type |-> node.type, dependencies |-> node.dependencies]

\* a constructor that calls setDependent() after addDependencies, so that
\* the node comes last in its list of dependent bounds
CompositeSelfLast(type, X, Y) ==
    LET dependencies == X.dependencies \cup Y.dependencies
        self == [type |-> type, dependencies |-> dependencies]
        Node(dependent) ==
            [type |-> type, A |-> X, B |-> Y,
             p |-> IF dependent THEN 2 ELSE 1,
             q |-> IF dependent THEN 2 ELSE 1,
             dependencies |-> dependencies,
             dependentBounds |-> X.dependentBounds \o Y.dependentBounds
                                 \o (IF dependent THEN <<self>> ELSE <<>>)]
    IN Node(checkDependence(X, Y))

\* The constructor shared by AggregateArrival, ConvolutionService,
\* OutputArrival, LeftoverService and LatencyBound: setDependent() when the
\* children depend on each other (resetOptBounds leaves p = q = 2), then
\* addDependencies of both children
Composite(type, X, Y) ==
    LET dependencies == X.dependencies \cup Y.dependencies
        self == [type |-> type, dependencies |-> dependencies]
        Node(dependent) ==
            [type |-> type, A |-> X, B |-> Y,
             p |-> IF dependent THEN 2 ELSE 1,
             q |-> IF dependent THEN 2 ELSE 1,
             dependencies |-> dependencies,
             dependentBounds |-> (IF dependent THEN <<self>> ELSE <<>>)
                                 \o X.dependentBounds \o Y.dependentBounds]
    IN Node(checkDependence(X, Y))

AggregateArrival(A, B) == Composite("AggregateArrival", A, B)
ConvolutionService(S, T) == Composite("ConvolutionService", S, T)
OutputArrival(A, S) == Composite("OutputArrival", A, S)
LeftoverService(A, S) == Composite("LeftoverService", A, S)

\* LatencyBound(A, S, epsilon)
LatencyBound(A, S, epsilon) ==
    [Composite("LatencyBound", A, S) EXCEPT !.type = "LatencyBound"]
        @@ [epsilon |-> epsilon]

\* the MMBPArrival a flow owns: f->arrival
ArrivalOf(f) ==
    [type |-> "MMBPArrival", flowId |-> f.flowId, rate |-> f.arrival.rate,
     p |-> 1, q |-> 1,
     dependencies |-> f.arrival.dependencies, dependentBounds |-> <<>>]

\* ConstantService(c)
ConstantService(c) ==
    [type |-> "ConstantService", c |-> c, p |-> 1, q |-> 1,
     dependencies |-> {}, dependentBounds |-> <<>>]

\* -log(1 - exp(theta * x)) / theta for the exponent theta * x:
\* NaN for a positive exponent (logarithm of a negative number), infinite
\* for a zero exponent (logarithm of zero), finite and positive otherwise
LogTerm(theta, x) ==
    IF x > 0 THEN NaN
    ELSE IF x = 0 THEN PosInf
    ELSE Fin((LogScale \div (theta * (0 - x))) \div theta)

Max(a, b) == IF a >= b THEN a ELSE b
Abs(a) == IF a >= 0 THEN a ELSE 0 - a

\* calcBound(theta, &sigma, &rho) of every operator; theta is a multiple
\* of the representative theta
RECURSIVE calcBound(_, _)
\* the bound of a composite operator from the bounds a and b of its children
Combine(type, theta, a, b) ==
    IF type = "AggregateArrival" THEN
        [sigma |-> DAdd(a.sigma, b.sigma), rho |-> a.rho + b.rho]
    ELSE IF type = "ConvolutionService" THEN
        LET rhoS == IF a.rho = b.rho THEN (a.rho * 99) \div 100 ELSE a.rho
        IN [sigma |-> DAdd(DAdd(a.sigma, b.sigma),
                           LogTerm(theta, 0 - Abs(rhoS - b.rho))),
            rho |-> Max(rhoS, b.rho)]
    ELSE IF type = "OutputArrival" THEN
        [sigma |-> DAdd(DAdd(a.sigma, b.sigma), LogTerm(theta, a.rho + b.rho)),
         rho |-> a.rho]
    ELSE \* LeftoverService
        [sigma |-> DAdd(a.sigma, b.sigma), rho |-> a.rho + b.rho]

calcBound(node, theta) ==
    IF node.type = "MMBPArrival" THEN
        [sigma |-> Fin(0), rho |-> node.rate * RhoUnit + (theta - 1) * Burst]
    ELSE IF node.type = "ConstantService" THEN
        [sigma |-> Fin(0), rho |-> 0 - node.c * RhoUnit]
    ELSE Combine(node.type, theta, calcBound(node.A, node.p * theta),
                 calcBound(node.B, node.q * theta))

\* floor(log2(x)) for x >= 1
RECURSIVE ILog2(_)
ILog2(x) == IF x <= 1 THEN 0 ELSE 1 + ILog2(x \div 2)

\* -log(epsilon) / theta
EpsTerm(theta, epsilon) == Fin(ILog2(epsilon.den \div epsilon.num) \div theta)

\* LatencyBound::calcLatency(theta):
\*   (log(epsilon * (1 - exp(theta * (rhoA + rhoS)))) / theta
\*      - (sigmaA + sigmaS)) / rhoS * stepSize
\* The numerator is minus the sum of four non-negative terms, so a finite
\* result has the sign of -1 / rhoS.
LatencyOf(num, rhoS) ==
    IF num.k = "nan" THEN NaN
    ELSE IF rhoS = 0 THEN PosInf
    ELSE IF num.k = "inf" THEN PosInf
    ELSE Fin((num.v * RhoUnit) \div (0 - rhoS))

calcLatencyAt(bound, theta) ==
    LET Latency(a, s) ==
            LatencyOf(DAdd(DAdd(EpsTerm(theta, bound.epsilon),
                                LogTerm(theta, a.rho + s.rho)),
                           DAdd(a.sigma, s.sigma)),
                      s.rho)
    IN Latency(calcBound(bound.A, bound.p * theta),
               calcBound(bound.B, bound.q * theta))

\* LatencyBound::calcLatency(): the bound at the theta calcTheta picks.
\* minSearch keeps a value only when it is smaller than the best so far, so
\* a bound that is NaN at every theta stays NaN
calcLatency(bound) == calcLatencyAt(bound, 1)

\* LatencyBound::dependencyOptimization(): the random search starts from
\* calcLatency() at the parameters resetOptBounds left (p = q = 2) and only
\* keeps smaller values; the model keeps the starting value
dependencyOptimization(bound) == calcLatency(bound)

-----------------------------------------------------------------------------
(* SNC.cpp: the aggregate two-hop analysis *)

\* SNC::aggregateArrivals, first loop: every arrival joins the first group
\* it does not depend on, or opens a new group
RECURSIVE GroupArrivals(_, _, _)
Least(S) == IF S = {} THEN 0 ELSE CHOOSE g \in S : \A h \in S : g <= h

\* a scan that keeps the last group the arrival does not depend on
LastIndependentGroup(arrival, arrivalGroups) ==
    LET S == {g \in 1..Len(arrivalGroups) :
                ~checkDependence(arrival, arrivalGroups[g])}
    IN IF S = {} THEN 0 ELSE CHOOSE g \in S : \A h \in S : g >= h

\* the first group the arrival does not depend on, 0 when there is none
FirstIndependentGroup(arrival, arrivalGroups) ==
    Least({g \in 1..Len(arrivalGroups) :
                ~checkDependence(arrival, arrivalGroups[g])})

GroupArrivals(arrivals, it, arrivalGroups) ==
    IF it > Len(arrivals) THEN arrivalGroups
    ELSE LET arrival == arrivals[it]
             Join(group) ==
                IF group = 0 THEN Append(arrivalGroups, arrival)
                ELSE [arrivalGroups EXCEPT
                        ![group] = AggregateArrival(arrival, arrivalGroups[group])]
         IN GroupArrivals(arrivals, it + 1,
                Join(FirstIndependentGroup(arrival, arrivalGroups)))

\* SNC::aggregateArrivals, second loop: the groups are aggregated left to right
RECURSIVE AggregateGroups(_, _, _)
AggregateGroups(aggregate, arrivalGroups, group) ==
    IF group > Len(arrivalGroups) THEN aggregate
    ELSE AggregateGroups(AggregateArrival(aggregate, arrivalGroups[group]),
                         arrivalGroups, group + 1)

aggregateArrivals(arrivals) ==
    LET Aggregate(arrivalGroups) ==
            AggregateGroups(arrivalGroups[1], arrivalGroups, 2)
    IN Aggregate(GroupArrivals(arrivals, 1, <<>>))

\* the arrivals of the flows a sequence of FlowIndex entries names
ArrivalsOf(n, entries) ==
    [i \in 1..Len(entries) |-> ArrivalOf(n.flows[entries[i].flowId])]

\* assert(queue->flows[i].index == index) over a whole flow list
AllAtIndex(n, queueId, index) ==
    \A i \in 1..Len(n.queues[queueId].flows) :
        n.queues[queueId].flows[i].index = index

\* service = new ConstantService(bandwidth) or any service; then, if
\* (!arrivals.empty()), service = new LeftoverService(
\* aggregateArrivals(arrivals), service)
LeftoverOf(arrivals, service) ==
    IF arrivals # <<>>
    THEN LeftoverService(aggregateArrivals(arrivals), service)
    ELSE service

\* a one-hop analysis that leaves out the test f->flowId != flow->flowId
OneHopBoundWithSelf(n, flow) ==
    LET firstQueueId == flow.queueIds[1]
        firstQueue == n.queues[firstQueueId]
        Competes(e) == n.flows[e.flowId].priority <= flow.priority
    IN IF ~AllAtIndex(n, firstQueueId, 0) THEN [ok |-> FALSE, ub |-> FALSE]
       ELSE [ok |-> TRUE, ub |-> FALSE,
             bound |-> LatencyBound(ArrivalOf(flow),
                        LeftoverOf(ArrivalsOf(n, SelectSeq(firstQueue.flows,
                                                           Competes)),
                                   ConstantService(firstQueue.bandwidth)),
                        [num |-> flow.epsilon.num,
                         den |-> flow.epsilon.den * Len(flow.queueIds)])]

\* One hop.  The result is the LatencyBound the code evaluates, or the
\* failure of one of its asserts
OneHopBound(n, flow) ==
    LET firstQueueId == flow.queueIds[1]
        firstQueue == n.queues[firstQueueId]
        Competes(e) == /\ n.flows[e.flowId].priority <= flow.priority
                       /\ e.flowId # flow.flowId
    IN IF ~AllAtIndex(n, firstQueueId, 0) THEN [ok |-> FALSE, ub |-> FALSE]
       ELSE [ok |-> TRUE, ub |-> FALSE,
             bound |-> LatencyBound(ArrivalOf(flow),
                        LeftoverOf(ArrivalsOf(n, SelectSeq(firstQueue.flows,
                                                           Competes)),
                                   ConstantService(firstQueue.bandwidth)),
                        [num |-> flow.epsilon.num,
                         den |-> flow.epsilon.den * Len(flow.queueIds)])]

\* Two hops: map<QueueId, unsigned int> firstQueueIds, built over the second
\* queue's flow list
RECURSIVE FirstQueueIds(_, _, _, _)
FirstQueueIds(n, flow, i, firstQueueIds) ==
    LET secondQueue == n.queues[flow.queueIds[2]]
    IN IF i > Len(secondQueue.flows) THEN firstQueueIds
       ELSE LET f == n.flows[secondQueue.flows[i].flowId]
            IN FirstQueueIds(n, flow, i + 1,
                 IF f.priority <= flow.priority
                 THEN IF f.queueIds[1] \notin DOMAIN firstQueueIds
                      THEN MapPut(firstQueueIds, f.queueIds[1], f.priority)
                      ELSE IF f.priority > firstQueueIds[f.queueIds[1]]
                      THEN MapPut(firstQueueIds, f.queueIds[1], f.priority)
                      ELSE firstQueueIds
                 ELSE firstQueueIds)

\* Two hops: one pass of the loop over firstQueueIds.  acc carries
\* firstQueueService, aggregateArrivalShared (a sequence of at most one
\* arrival) and arrivalsSecondQueue.  f->queueIds[1] of a one-hop flow is a
\* read past the end of the vector: oob is what the comparison then yields
FirstQueueStep(n, flow, queueId, priority, oob, acc) ==
    LET q == n.queues[queueId]
        Considered(e) == /\ n.flows[e.flowId].priority <= priority
                         /\ e.flowId # flow.flowId
        SharesSecond(e) ==
            IF Len(n.flows[e.flowId].queueIds) >= 2
            THEN n.flows[e.flowId].queueIds[2] = flow.queueIds[2]
            ELSE oob
        Shared(e) == Considered(e) /\ SharesSecond(e)
        NonShared(e) == Considered(e) /\ ~SharesSecond(e)
        pastEnd == \E i \in 1..Len(q.flows) :
                        /\ Considered(q.flows[i])
                        /\ Len(n.flows[q.flows[i].flowId].queueIds) < 2
        Step(arrivalsShared, service) ==
            IF queueId = flow.queueIds[1]
            THEN [acc EXCEPT
                    !.ub = @ \/ pastEnd,
                    !.firstQueueService = <<service>>,
                    !.aggregateArrivalShared =
                        IF arrivalsShared # <<>>
                        THEN <<aggregateArrivals(arrivalsShared)>>
                        ELSE @]
            ELSE [acc EXCEPT
                    !.ub = @ \/ pastEnd,
                    !.arrivalsSecondQueue =
                        IF arrivalsShared # <<>>
                        THEN Append(@, OutputArrival(
                                    aggregateArrivals(arrivalsShared), service))
                        ELSE @]
    IN IF ~acc.ok \/ ~AllAtIndex(n, queueId, 0) THEN [acc EXCEPT !.ok = FALSE]
       ELSE Step(ArrivalsOf(n, SelectSeq(q.flows, Shared)),
                 LeftoverOf(ArrivalsOf(n, SelectSeq(q.flows, NonShared)),
                            ConstantService(q.bandwidth)))

RECURSIVE FirstQueueLoop(_, _, _, _, _, _)
FirstQueueLoop(n, flow, firstQueueIds, keys, oob, acc) ==
    IF keys = <<>> THEN acc
    ELSE FirstQueueLoop(n, flow, firstQueueIds, Tail(keys), oob,
            FirstQueueStep(n, flow, Head(keys), firstQueueIds[Head(keys)],
                           oob, acc))

\* a final part that takes the shared arrivals off the first queue's service
\* and off the convolution as well
TwoHopFinalSharedTwice(n, flow, acc) ==
    LET Final(finalService) ==
            IF acc.aggregateArrivalShared # <<>>
            THEN LeftoverService(acc.aggregateArrivalShared[1], finalService)
            ELSE finalService
    IN IF ~acc.ok THEN [ok |-> FALSE, ub |-> acc.ub]
       ELSE [ok |-> TRUE, ub |-> acc.ub,
             bound |-> LatencyBound(ArrivalOf(flow),
                Final(ConvolutionService(
                        LeftoverOf(acc.aggregateArrivalShared,
                                   acc.firstQueueService[1]),
                        LeftoverOf(acc.arrivalsSecondQueue,
                            ConstantService(
                                n.queues[flow.queueIds[2]].bandwidth)))),
                flow.epsilon)]

\* Two hops: the part after the loop over firstQueueIds
TwoHopFinal(n, flow, acc) ==
    LET Final(finalService) ==
            IF acc.aggregateArrivalShared # <<>>
            THEN LeftoverService(acc.aggregateArrivalShared[1], finalService)
            ELSE finalService
    IN IF ~acc.ok THEN [ok |-> FALSE, ub |-> acc.ub]
       ELSE [ok |-> TRUE, ub |-> acc.ub,
             bound |-> LatencyBound(ArrivalOf(flow),
                Final(ConvolutionService(acc.firstQueueService[1],
                        LeftoverOf(acc.arrivalsSecondQueue,
                            ConstantService(
                                n.queues[flow.queueIds[2]].bandwidth)))),
                flow.epsilon)]

TwoHopBound(n, flow, oob) ==
    LET Loop(firstQueueIds) ==
            FirstQueueLoop(n, flow, firstQueueIds,
                SortedSeq(DOMAIN firstQueueIds), oob,
                [ok |-> TRUE, ub |-> FALSE, firstQueueService |-> <<>>,
                 aggregateArrivalShared |-> <<>>, arrivalsSecondQueue |-> <<>>])
    IN IF ~AllAtIndex(n, flow.queueIds[2], 1) THEN [ok |-> FALSE, ub |-> FALSE]
       ELSE TwoHopFinal(n, flow, Loop(FirstQueueIds(n, flow, 1, EmptyMap)))

\* SNC::aggregateAnalysisTwoHopDep: the latency assigned to flow->latency.
\* ok is FALSE when an assert of the analysis fails; a flow without queues
\* keeps the latency it had
aggregateAnalysisTwoHopDep(n, flow, oob) ==
    LET OneHop(r) ==
            IF r.ok THEN [ok |-> TRUE, ub |-> FALSE,
                          latency |-> calcLatency(r.bound)]
            ELSE r
        TwoHop(r) ==
            IF r.ok THEN [ok |-> TRUE, ub |-> r.ub,
                          latency |-> dependencyOptimization(r.bound)]
            ELSE r
    IN IF Len(flow.queueIds) > 2 THEN [ok |-> FALSE, ub |-> FALSE]
       ELSE IF Len(flow.queueIds) = 1 THEN OneHop(OneHopBound(n, flow))
       ELSE IF Len(flow.queueIds) = 2 THEN TwoHop(TwoHopBound(n, flow, oob))
       ELSE [ok |-> TRUE, ub |-> FALSE, latency |-> flow.latency]

\* SNC::calcFlowLatency with _algorithm = SNC_ALGORITHM_AGGREGATE, the
\* algorithm of the SNC() that SNC-Meister's main constructs
calcFlowLatency(n, flowId, oob) ==
    aggregateAnalysisTwoHopDep(n, n.flows[flowId], oob)

\* NC::calcClientLatency: the loop over c->flowIds.  The result carries the
\* registry with every flow's latency and the client's sum stored
RECURSIVE CalcFlows(_, _, _, _, _, _)
CalcFlows(n, clientId, flowIndex, latency, oob, ub) ==
    LET c == n.clients[clientId]
        Add(r) ==
            IF ~r.ok THEN [ok |-> FALSE, ub |-> ub \/ r.ub, nc |-> n]
            ELSE CalcFlows(
                   [n EXCEPT !.flows[c.flowIds[flowIndex]].latency = r.latency],
                   clientId, flowIndex + 1, DAdd(latency, r.latency),
                   oob, ub \/ r.ub)
    IN IF flowIndex > Len(c.flowIds)
       THEN [ok |-> TRUE, ub |-> ub,
             nc |-> [n EXCEPT !.clients[clientId].latency = latency]]
       ELSE Add(calcFlowLatency(n, c.flowIds[flowIndex], oob))

calcClientLatency(n, clientId, oob) ==
    CalcFlows(n, clientId, 1, Fin(0), oob, FALSE)

\* SNC::addDependency: every flow of client 1 gets the flow ids of client 2
\* added to its arrival's dependencies, then the other way round
addDependency(n, clientId1, clientId2) ==
    LET c1 == n.clients[clientId1]
        c2 == n.clients[clientId2]
        first == [n EXCEPT !.flows = [id \in DOMAIN n.flows |->
                    IF id \in Range(c1.flowIds)
                    THEN [n.flows[id] EXCEPT !.arrival.dependencies =
                                                @ \cup Range(c2.flowIds)]
                    ELSE n.flows[id]]]
    IN [first EXCEPT !.flows = [id \in DOMAIN first.flows |->
                    IF id \in Range(c2.flowIds)
                    THEN [first.flows[id] EXCEPT !.arrival.dependencies =
                                                @ \cup Range(c1.flowIds)]
                    ELSE first.flows[id]]]

-----------------------------------------------------------------------------
(* priorityAlgoBySLO.cpp *)

\* a comparison that sorts the loosest SLO first
SLOCompareReversed(c1, c2) == c1.SLO > c2.SLO

SLOCompare(c1, c2) == c1.SLO < c2.SLO

\* sort(clientList.begin(), clientList.end(), SLOCompare): the client ids in
\* an order in which no client precedes one that compares less
RECURSIVE SortBySLO(_, _)
SortBySLO(n, ids) ==
    IF ids = {} THEN <<>>
    ELSE LET least == CHOOSE c \in ids :
                        \A d \in ids : ~SLOCompare(n.clients[d], n.clients[c])
         IN <<least>> \o SortBySLO(n, ids \ {least})

\* setFlowPriority for each flow of client c
RECURSIVE SetClientPriority(_, _, _, _)
SetClientPriority(n, c, flowIndex, priority) ==
    IF flowIndex > Len(c.flowIds) THEN n
    ELSE SetClientPriority(setFlowPriority(n, c.flowIds[flowIndex], priority),
                           c, flowIndex + 1, priority)

\* the loop of configurePrioritiesBySLO over the sorted client list
RECURSIVE AssignPriorities(_, _, _, _, _)
AssignPriorities(n, clientList, index, priority, currentSLO) ==
    IF index > Len(clientList) THEN n
    ELSE LET c == n.clients[clientList[index]]
             bump == c.SLO > currentSLO
             newPriority == IF bump THEN priority + 1 ELSE priority
         IN AssignPriorities(SetClientPriority(n, c, 1, newPriority),
                             clientList, index + 1, newPriority,
                             IF bump THEN c.SLO ELSE currentSLO)

\* a configurePrioritiesBySLO that goes through the clients in the order
\* they were added, not in the order of their SLOs
configurePrioritiesByArrival(n) ==
    AssignPriorities(n, SortedSeq(DOMAIN n.clients), 1, 0, 0)

configurePrioritiesBySLO(n) ==
    AssignPriorities(n, SortBySLO(n, DOMAIN n.clients), 1, 0, 0)

-----------------------------------------------------------------------------
(* SNC-Meister.cpp: argument checks *)

\* a JSON value that is not an array, where an array of strings or an array
\* of objects is expected
NotStringArray == <<"#not-an-array">>
NotObjectArray == <<[notAnArray |-> TRUE]>>

\* a checkFlowInfo that looks for the flow's name in the registry only, not
\* among the names seen earlier in the same call
checkFlowInfoRegistryOnly(n, flowNames, flowInfo) ==
    IF "name" \notin DOMAIN flowInfo
    THEN [status |-> "SNC_ERR_MISSING_ARGUMENT", flowNames |-> flowNames]
    ELSE IF getFlowIdByName(n, flowInfo.name) # InvalidFlowId
    THEN [status |-> "SNC_ERR_FLOW_NAME_IN_USE", flowNames |-> flowNames]
    ELSE IF "queues" \notin DOMAIN flowInfo
    THEN [status |-> "SNC_ERR_MISSING_ARGUMENT", flowNames |-> flowNames]
    ELSE IF flowInfo.queues = NotStringArray
    THEN [status |-> "SNC_ERR_INVALID_ARGUMENT", flowNames |-> flowNames]
    ELSE IF \E index \in 1..Len(flowInfo.queues) :
              getQueueIdByName(n, flowInfo.queues[index]) = InvalidQueueId
    THEN [status |-> "SNC_ERR_QUEUE_NAME_NONEXISTENT", flowNames |-> flowNames]
    ELSE IF "arrivalInfo" \notin DOMAIN flowInfo
    THEN [status |-> "SNC_ERR_MISSING_ARGUMENT", flowNames |-> flowNames]
    ELSE [status |-> "SNC_SUCCESS", flowNames |-> flowNames]

\* checkFlowInfo: the status and the grown set of names seen in this call
checkFlowInfo(n, flowNames, flowInfo) ==
    IF "name" \notin DOMAIN flowInfo
    THEN [status |-> "SNC_ERR_MISSING_ARGUMENT", flowNames |-> flowNames]
    ELSE IF getFlowIdByName(n, flowInfo.name) # InvalidFlowId
    THEN [status |-> "SNC_ERR_FLOW_NAME_IN_USE", flowNames |-> flowNames]
    ELSE IF flowInfo.name \in flowNames
    THEN [status |-> "SNC_ERR_FLOW_NAME_IN_USE", flowNames |-> flowNames]
    ELSE LET names == flowNames \cup {flowInfo.name}
         IN IF "queues" \notin DOMAIN flowInfo
            THEN [status |-> "SNC_ERR_MISSING_ARGUMENT", flowNames |-> names]
            ELSE IF flowInfo.queues = NotStringArray
            THEN [status |-> "SNC_ERR_INVALID_ARGUMENT", flowNames |-> names]
            ELSE IF \E index \in 1..Len(flowInfo.queues) :
                      getQueueIdByName(n, flowInfo.queues[index]) = InvalidQueueId
            THEN [status |-> "SNC_ERR_QUEUE_NAME_NONEXISTENT", flowNames |-> names]
            ELSE IF "arrivalInfo" \notin DOMAIN flowInfo
            THEN [status |-> "SNC_ERR_MISSING_ARGUMENT", flowNames |-> names]
            ELSE [status |-> "SNC_SUCCESS", flowNames |-> names]

\* the loop of checkClientInfo over the client's flows
RECURSIVE CheckFlows(_, _, _, _)
CheckFlows(n, flowNames, clientFlows, flowIndex) ==
    IF flowIndex > Len(clientFlows)
    THEN [status |-> "SNC_SUCCESS", flowNames |-> flowNames]
    ELSE LET r == checkFlowInfo(n, flowNames, clientFlows[flowIndex])
         IN IF r.status # "SNC_SUCCESS" THEN r
            ELSE CheckFlows(n, r.flowNames, clientFlows, flowIndex + 1)

\* a checkClientInfo that looks for the client's name in the registry only,
\* not among the names seen earlier in the same call
checkClientInfoRegistryOnly(n, clientNames, flowNames, clientInfo) ==
    LET Res(status, fn) ==
            [status |-> status, clientNames |-> clientNames, flowNames |-> fn]
        Flows(r) == Res(r.status, r.flowNames)
    IN IF "name" \notin DOMAIN clientInfo
       THEN Res("SNC_ERR_MISSING_ARGUMENT", flowNames)
       ELSE IF getClientIdByName(n, clientInfo.name) # InvalidClientId
       THEN Res("SNC_ERR_CLIENT_NAME_IN_USE", flowNames)
       ELSE IF "SLO" \notin DOMAIN clientInfo
       THEN Res("SNC_ERR_MISSING_ARGUMENT", flowNames)
       ELSE IF clientInfo.SLO <= 0
       THEN Res("SNC_ERR_INVALID_ARGUMENT", flowNames)
       ELSE IF /\ "SLOpercentile" \in DOMAIN clientInfo
               /\ ~(/\ 0 < clientInfo.SLOpercentile
                    /\ clientInfo.SLOpercentile < FullPercentile)
       THEN Res("SNC_ERR_INVALID_ARGUMENT", flowNames)
       ELSE IF "flows" \notin DOMAIN clientInfo
       THEN Res("SNC_ERR_MISSING_ARGUMENT", flowNames)
       ELSE IF clientInfo.flows = NotObjectArray
       THEN Res("SNC_ERR_INVALID_ARGUMENT", flowNames)
       ELSE Flows(CheckFlows(n, flowNames, clientInfo.flows, 1))

\* checkClientInfo
checkClientInfo(n, clientNames, flowNames, clientInfo) ==
    LET Res(status, cn, fn) ==
            [status |-> status, clientNames |-> cn, flowNames |-> fn]
    IN IF "name" \notin DOMAIN clientInfo
       THEN Res("SNC_ERR_MISSING_ARGUMENT", clientNames, flowNames)
       ELSE IF getClientIdByName(n, clientInfo.name) # InvalidClientId
       THEN Res("SNC_ERR_CLIENT_NAME_IN_USE", clientNames, flowNames)
       ELSE IF clientInfo.name \in clientNames
       THEN Res("SNC_ERR_CLIENT_NAME_IN_USE", clientNames, flowNames)
       ELSE LET names == clientNames \cup {clientInfo.name}
            IN IF "SLO" \notin DOMAIN clientInfo
               THEN Res("SNC_ERR_MISSING_ARGUMENT", names, flowNames)
               ELSE IF clientInfo.SLO <= 0
               THEN Res("SNC_ERR_INVALID_ARGUMENT", names, flowNames)
               ELSE IF /\ "SLOpercentile" \in DOMAIN clientInfo
                       /\ ~(/\ 0 < clientInfo.SLOpercentile
                            /\ clientInfo.SLOpercentile < FullPercentile)
               THEN Res("SNC_ERR_INVALID_ARGUMENT", names, flowNames)
               ELSE IF "flows" \notin DOMAIN clientInfo
               THEN Res("SNC_ERR_MISSING_ARGUMENT", names, flowNames)
               ELSE IF clientInfo.flows = NotObjectArray
               THEN Res("SNC_ERR_INVALID_ARGUMENT", names, flowNames)
               ELSE LET r == CheckFlows(n, flowNames, clientInfo.flows, 1)
                    IN Res(r.status, names, r.flowNames)

\* checkClientInfos: clientInfos is the parsed argument, an array or not
RECURSIVE CheckClients(_, _, _, _, _)
CheckClients(n, clientNames, flowNames, clientInfos, i) ==
    IF i > Len(clientInfos) THEN "SNC_SUCCESS"
    ELSE LET r == checkClientInfo(n, clientNames, flowNames, clientInfos[i])
         IN IF r.status # "SNC_SUCCESS" THEN r.status
            ELSE CheckClients(n, r.clientNames, r.flowNames, clientInfos, i + 1)

checkClientInfos(n, clientInfos) ==
    IF clientInfos = NotObjectArray THEN "SNC_ERR_INVALID_ARGUMENT"
    ELSE CheckClients(n, {}, {}, clientInfos, 1)

-----------------------------------------------------------------------------
(* SNC-Meister.cpp: addDependencies, markAffectedFlows *)

\* the loop of addDependencies over clientInfo["dependencies"]; it returns
\* at the first name that is no client, keeping what it has wired so far
RECURSIVE WireDependencies(_, _, _, _)
WireDependencies(n, clientId, dependencies, i) ==
    IF i > Len(dependencies) THEN [status |-> "SNC_SUCCESS", nc |-> n]
    ELSE LET dependency == getClientIdByName(n, dependencies[i])
         IN IF dependency = InvalidClientId
            THEN [status |-> "SNC_ERR_CLIENT_NAME_NONEXISTENT", nc |-> n]
            ELSE WireDependencies(addDependency(n, clientId, dependency),
                                  clientId, dependencies, i + 1)

addDependencies(n, clientInfo) ==
    IF "dependencies" \in DOMAIN clientInfo
    THEN IF clientInfo.dependencies = NotStringArray
         THEN [status |-> "SNC_ERR_INVALID_ARGUMENT", nc |-> n]
         ELSE WireDependencies(n, getClientIdByName(n, clientInfo.name),
                               clientInfo.dependencies, 1)
    ELSE [status |-> "SNC_SUCCESS", nc |-> n]

\* markAffectedFlows(affectedFlows, fi, priority): the set after the call.
\* MarkPath is its loop over the queues from fi.index on, MarkQueue its loop
\* over one queue's flow list
RECURSIVE markAffectedFlows(_, _, _, _)
RECURSIVE MarkPath(_, _, _, _)
RECURSIVE MarkQueue(_, _, _, _, _)

\* a loop over the path that stops after the queue at fi.index
MarkFirstQueueOnly(n, affected, f, index) ==
    IF index >= Len(f.queueIds) THEN affected
    ELSE MarkQueue(n, affected, f, n.queues[f.queueIds[index + 1]].flows, 1)

markAffectedFlows(n, affected, fi, priority) ==
    LET f == n.flows[fi.flowId]
    IN IF f.priority < priority THEN affected
       ELSE IF fi \in affected THEN affected
       ELSE MarkPath(n, affected \cup {fi}, f, fi.index)

MarkPath(n, affected, f, index) ==
    IF index >= Len(f.queueIds) THEN affected
    ELSE MarkPath(n,
            MarkQueue(n, affected, f, n.queues[f.queueIds[index + 1]].flows, 1),
            f, index + 1)

MarkQueue(n, affected, f, entries, itFi) ==
    IF itFi > Len(entries) THEN affected
    ELSE MarkQueue(n, markAffectedFlows(n, affected, entries[itFi], f.priority),
                   f, entries, itFi + 1)

-----------------------------------------------------------------------------
(* SNC-Meister.cpp: snc_meister_add_clients_svc, step by step *)

\* an argument string that Json::Reader cannot parse, where an object and
\* where an array is expected
NotJSON == [unparsable |-> TRUE]
Unparsable == <<NotJSON>>

\* "Add clients": addClient, clientIds.insert, clientInfoStore[clientId]
RECURSIVE InsertClients(_, _, _, _, _)
InsertClients(n, store, ids, clientInfos, i) ==
    IF i > Len(clientInfos) THEN [nc |-> n, store |-> store, clientIds |-> ids]
    ELSE LET clientId == n.nextClientId
         IN InsertClients(addClient(n, clientInfos[i]),
                          MapPut(store, clientId, clientInfos[i]),
                          ids \cup {clientId}, clientInfos, i + 1)

\* "Add dependencies": stops at the first failing client
RECURSIVE AddAllDependencies(_, _, _)
AddAllDependencies(n, clientInfos, i) ==
    IF i > Len(clientInfos) THEN [status |-> "SNC_SUCCESS", nc |-> n]
    ELSE LET Continue(r) ==
                IF r.status # "SNC_SUCCESS" THEN r
                ELSE AddAllDependencies(r.nc, clientInfos, i + 1)
         IN Continue(addDependencies(n, clientInfos[i]))

\* markAffectedFlows(affectedFlows, {flowId, 0}, 0) for every flow of c
RECURSIVE MarkClient(_, _, _, _)
MarkClient(n, affected, flowIds, itF) ==
    IF itF > Len(flowIds) THEN affected
    ELSE MarkClient(n,
            markAffectedFlows(n, affected,
                              [flowId |-> flowIds[itF], index |-> 0], 0),
            flowIds, itF + 1)

\* "Check latency of added clients": the loop over clientIds in id order
RECURSIVE CheckAdded(_, _, _, _, _)
CheckAdded(n, ids, affected, oob, ub) ==
    IF ids = <<>>
    THEN [ok |-> TRUE, ub |-> ub, nc |-> n, admitted |-> TRUE,
          affectedFlows |-> affected]
    ELSE LET Check(r) ==
                IF ~r.ok
                THEN [ok |-> FALSE, ub |-> ub \/ r.ub, nc |-> n,
                      admitted |-> FALSE, affectedFlows |-> affected]
                ELSE IF DGreater(r.nc.clients[Head(ids)].latency,
                                 Fin(r.nc.clients[Head(ids)].SLO))
                THEN [ok |-> TRUE, ub |-> ub \/ r.ub, nc |-> r.nc,
                      admitted |-> FALSE, affectedFlows |-> affected]
                ELSE CheckAdded(r.nc, Tail(ids),
                        MarkClient(r.nc, affected,
                                   r.nc.clients[Head(ids)].flowIds, 1),
                        oob, ub \/ r.ub)
         IN Check(calcClientLatency(n, Head(ids), oob))

\* "Check latency of other affected clients": the loop over
\* affectedClientIds in id order, skipping the clients of the batch
RECURSIVE CheckAffected(_, _, _, _, _)
CheckAffected(n, ids, batchIds, oob, ub) ==
    IF ids = <<>> THEN [ok |-> TRUE, ub |-> ub, nc |-> n, admitted |-> TRUE]
    ELSE IF Head(ids) \in batchIds
    THEN CheckAffected(n, Tail(ids), batchIds, oob, ub)
    ELSE LET Check(r) ==
                IF ~r.ok
                THEN [ok |-> FALSE, ub |-> ub \/ r.ub, nc |-> n,
                      admitted |-> FALSE]
                ELSE IF DGreater(r.nc.clients[Head(ids)].latency,
                                 Fin(r.nc.clients[Head(ids)].SLO))
                THEN [ok |-> TRUE, ub |-> ub \/ r.ub, nc |-> r.nc,
                      admitted |-> FALSE]
                ELSE CheckAffected(r.nc, Tail(ids), batchIds, oob, ub \/ r.ub)
         IN Check(calcClientLatency(n, Head(ids), oob))

\* the affectedClientIds of a set of FlowIndex entries
AffectedClientIds(n, affected) == {n.flows[fi.flowId].clientId : fi \in affected}

\* the block under "if (result.status == SNC_SUCCESS)"
CheckLatencies(n, batchIds, oob) ==
    LET Others(added, others) ==
            [ok |-> others.ok, ub |-> others.ub, nc |-> others.nc,
             admitted |-> others.admitted,
             affectedFlows |-> added.affectedFlows]
        Added(added) ==
            IF ~added.ok \/ ~added.admitted THEN added
            ELSE Others(added,
                    CheckAffected(added.nc,
                        SortedSeq(AffectedClientIds(added.nc,
                                                    added.affectedFlows)),
                        batchIds, oob, added.ub))
    IN Added(CheckAdded(configurePrioritiesBySLO(n), SortedSeq(batchIds), {},
                        oob, FALSE))

\* the updateClient RPCs of "Send RPC to NetEnforcer to update client", for
\* the flows that carry enforcerAddr, dstAddr and srcAddr
HasAddresses(flowInfo) ==
    /\ "enforcerAddr" \in DOMAIN flowInfo
    /\ "dstAddr" \in DOMAIN flowInfo
    /\ "srcAddr" \in DOMAIN flowInfo

\* updateClient calls that carry the default priority of a flow, not the
\* priority the flow has in the registry
RECURSIVE UpdatesWithDefaultPriority(_, _, _)
UpdatesWithDefaultPriority(n, clientFlows, flowIndex) ==
    IF flowIndex > Len(clientFlows) THEN <<>>
    ELSE LET flowInfo == clientFlows[flowIndex]
             rest == UpdatesWithDefaultPriority(n, clientFlows, flowIndex + 1)
         IN IF HasAddresses(flowInfo)
            THEN <<[rpc |-> "updateClient",
                    enforcerAddr |-> flowInfo.enforcerAddr,
                    dstAddr |-> flowInfo.dstAddr, srcAddr |-> flowInfo.srcAddr,
                    priority |-> 1]>>
                 \o rest
            ELSE rest

RECURSIVE UpdatesOfFlows(_, _, _)
UpdatesOfFlows(n, clientFlows, flowIndex) ==
    IF flowIndex > Len(clientFlows) THEN <<>>
    ELSE LET flowInfo == clientFlows[flowIndex]
             rest == UpdatesOfFlows(n, clientFlows, flowIndex + 1)
         IN IF HasAddresses(flowInfo)
            THEN <<[rpc |-> "updateClient",
                    enforcerAddr |-> flowInfo.enforcerAddr,
                    dstAddr |-> flowInfo.dstAddr, srcAddr |-> flowInfo.srcAddr,
                    priority |->
                        n.flows[getFlowIdByName(n, flowInfo.name)].priority]>>
                 \o rest
            ELSE rest

RECURSIVE UpdatesOfClients(_, _, _)
UpdatesOfClients(n, clientInfos, i) ==
    IF i > Len(clientInfos) THEN <<>>
    ELSE UpdatesOfFlows(n, clientInfos[i].flows, 1)
            \o UpdatesOfClients(n, clientInfos, i + 1)

\* a "Delete clients" that erases the batch from clientInfoStore and leaves
\* it in the registry
DeleteFromStoreOnly(n, store, ids) ==
    [nc |-> n, store |-> [x \in DOMAIN store \ Range(ids) |-> store[x]]]

\* "Delete clients": clientInfoStore.erase and delClient for every batch id
RECURSIVE DeleteClients(_, _, _)
DeleteClients(n, store, ids) ==
    IF ids = <<>> THEN [nc |-> n, store |-> store]
    ELSE DeleteClients(delClient(n, Head(ids)), MapErase(store, Head(ids)),
                       Tail(ids))

\* snc_meister_add_clients_svc as a whole: the registry, the store, the
\* result, the two local sets and the RPCs sent when it returns; ok is FALSE
\* when an assert fails on the way, ub is TRUE when it read past a vector
snc_meister_add_clients_svc(n, store, clientInfos, oob) ==
    LET Return(n2, store2, status, admitted, ids, affected, rpcs, ub) ==
            [ok |-> TRUE, ub |-> ub, nc |-> n2, clientInfoStore |-> store2,
             result |-> [op |-> "add_clients", status |-> status,
                         admitted |-> admitted],
             clientIds |-> ids, affectedFlows |-> affected, sent |-> rpcs]
        Rejected(undone, status, ids, affected, ub) ==
            Return(undone.nc, undone.store, status, FALSE, ids, affected,
                   <<>>, ub)
        Checked(inserted, checked) ==
            IF ~checked.ok THEN [ok |-> FALSE, ub |-> checked.ub]
            ELSE IF checked.admitted
            THEN Return(checked.nc, inserted.store, "SNC_SUCCESS", TRUE,
                        inserted.clientIds, checked.affectedFlows,
                        UpdatesOfClients(checked.nc, clientInfos, 1), checked.ub)
            ELSE Rejected(DeleteClients(checked.nc, inserted.store,
                                        SortedSeq(inserted.clientIds)),
                          "SNC_SUCCESS", inserted.clientIds,
                          checked.affectedFlows, checked.ub)
        Wired(inserted, wired) ==
            IF wired.status # "SNC_SUCCESS"
            THEN Rejected(DeleteClients(wired.nc, inserted.store,
                                        SortedSeq(inserted.clientIds)),
                          wired.status, inserted.clientIds, {}, FALSE)
            ELSE Checked(inserted,
                         CheckLatencies(wired.nc, inserted.clientIds, oob))
        Inserted(inserted) ==
            Wired(inserted, AddAllDependencies(inserted.nc, clientInfos, 1))
        Validated(status) ==
            IF status # "SNC_SUCCESS"
            THEN Return(n, store, status, FALSE, {}, {}, <<>>, FALSE)
            ELSE Inserted(InsertClients(n, store, {}, clientInfos, 1))
    IN IF clientInfos = Unparsable
       THEN Return(n, store, "SNC_ERR_INVALID_ARGUMENT", FALSE, {}, {}, <<>>,
                   FALSE)
       ELSE Validated(checkClientInfos(n, clientInfos))

\* the removeClient RPCs of snc_meister_del_client_svc
RECURSIVE RemovalsOfFlows(_, _)
RemovalsOfFlows(clientFlows, flowIndex) ==
    IF flowIndex > Len(clientFlows) THEN <<>>
    ELSE LET flowInfo == clientFlows[flowIndex]
             rest == RemovalsOfFlows(clientFlows, flowIndex + 1)
         IN IF HasAddresses(flowInfo)
            THEN <<[rpc |-> "removeClient",
                    enforcerAddr |-> flowInfo.enforcerAddr,
                    dstAddr |-> flowInfo.dstAddr, srcAddr |-> flowInfo.srcAddr]>>
                 \o rest
            ELSE rest

-----------------------------------------------------------------------------
(* The arguments the RPCs are called with *)

\* queueInfo objects: three valid queues, then a missing name, a missing
\* bandwidth, a bandwidth that is not positive and a string that is not JSON
QueueInfos ==
    { [name |-> "Q1", bandwidth |-> 3],
      [name |-> "Q2", bandwidth |-> 4],
      [name |-> "Q3", bandwidth |-> 2],
      [bandwidth |-> 3],
      [name |-> "Q1"],
      [name |-> "Q2", bandwidth |-> 0],
      NotJSON }

QueueNames == {"Q1", "Q2", "Q3", "Q9"}
ClientNames == {"A", "B", "C", "Z"}

FlowInfo(name, queues, arrivalInfo) ==
    [name |-> name, queues |-> queues, arrivalInfo |-> arrivalInfo]

WithAddresses(flowInfo) ==
    flowInfo @@ [enforcerAddr |-> "e1", dstAddr |-> flowInfo.name,
                 srcAddr |-> "s1"]

\* A: two one-hop flows at Q1, one of them enforced
ClientA ==
    [name |-> "A", SLO |-> 40,
     flows |-> <<WithAddresses(FlowInfo("a1", <<"Q1">>, 1)),
                 FlowInfo("a2", <<"Q1">>, 1)>>]
\* B: one two-hop flow through Q1 and Q2
ClientB ==
    [name |-> "B", SLO |-> 20,
     flows |-> <<WithAddresses(FlowInfo("b1", <<"Q1", "Q2">>, 1))>>]
\* B with an SLO no bound meets
ClientBTight ==
    [name |-> "B", SLO |-> 1, flows |-> <<FlowInfo("b1", <<"Q1">>, 1)>>]
\* C: one flow asking for more than Q3 serves, at the 90th percentile
ClientCOver ==
    [name |-> "C", SLO |-> 30, SLOpercentile |-> 900,
     flows |-> <<FlowInfo("c1", <<"Q3">>, 4)>>]
\* C without flows, with the SLO of B
ClientCEmpty == [name |-> "C", SLO |-> 20, flows |-> <<>>]
\* C: one two-hop flow through Q3 and Q2, declared dependent on A
ClientCTwoHop ==
    [name |-> "C", SLO |-> 60,
     flows |-> <<FlowInfo("c1", <<"Q3", "Q2">>, 1)>>,
     dependencies |-> <<"A">>]
\* C: one two-hop flow through Q1 and Q2, with the SLO of A
ClientCLate ==
    [name |-> "C", SLO |-> 40,
     flows |-> <<FlowInfo("c1", <<"Q1", "Q2">>, 1)>>]
\* C: one flow that takes exactly what Q3 serves
ClientCFull ==
    [name |-> "C", SLO |-> 60, flows |-> <<FlowInfo("c1", <<"Q3">>, 2)>>]
\* C with a flow named like a flow of A
ClientCDupFlow ==
    [name |-> "C", SLO |-> 40, flows |-> <<FlowInfo("a1", <<"Q2">>, 1)>>]
\* B with a flow whose queues array is empty
ClientBNoPath ==
    [name |-> "B", SLO |-> 20, flows |-> <<FlowInfo("b1", <<>>, 1)>>]
\* a client without SLO
ClientNoSLO == [name |-> "C", flows |-> <<>>]

ClientInfos ==
    { ClientA, ClientB, ClientBTight, ClientCOver, ClientCEmpty,
      ClientCTwoHop, ClientCLate, ClientCFull, ClientCDupFlow, ClientNoSLO,
      ClientBNoPath }

\* the clientInfos arguments: every single client, some pairs and a triple,
\* an empty array, a value that is not an array, a string that is not JSON
BatchList ==
    { <<c>> : c \in ClientInfos } \cup
    { <<ClientA, ClientB>>, <<ClientB, ClientA>>, <<ClientA, ClientA>>,
      <<ClientA, ClientCDupFlow>>, <<ClientCEmpty, ClientBTight>>,
      <<ClientA, ClientCTwoHop>>, <<ClientCEmpty, ClientB>>,
      <<ClientA, ClientB, ClientCEmpty>>, <<ClientNoSLO, ClientA>>,
      <<ClientCEmpty, ClientCFull>>,
      <<>>, NotObjectArray, Unparsable }

IsArray(clientInfos) == clientInfos # NotObjectArray /\ clientInfos # Unparsable

Batches == { b \in BatchList : Len(b) <= MaxBatch }

-----------------------------------------------------------------------------
(* The server: main() and the four RPC handlers *)

NoResult == [op |-> "none", status |-> "SNC_SUCCESS"]

\* no member function of dp called yet
NoCall == [op |-> "none"]

\* no MGF object constructed
NoMGF == [type |-> "none"]

\* no LatencyBound to optimize
NoSearch == [pc |-> "none"]

\* NetEnforcer after main(): initTC() has removed the root qdisc and with it
\* every filter, g_clients is empty and g_nextId = 1; accepted keeps, for
\* every pair, the priority of the last update that passed the range check
\* since the pair was last removed
NetEnforcerInit ==
    [g_clients |-> EmptyMap, g_nextId |-> 1, filters |-> <<>>,
     accepted |-> EmptyMap, call |-> NoCall]

\* main(): nc = new SNC(), nothing stored, no RPC handled yet; beside it a
\* default-constructed DependencyParams and no operator
Init ==
    /\ nc = NCInit
    /\ clientInfoStore = EmptyMap
    /\ result = NoResult
    /\ clientIds = {}
    /\ affectedFlows = {}
    /\ sent = <<>>
    /\ running = TRUE
    /\ dp = DependencyParams
    /\ dpCall = NoCall
    /\ pool = {}
    /\ search = NoSearch
    /\ mgf = NoMGF
    /\ hop = NoCall
    /\ aggregation = NoCall
    /\ enforcer = NetEnforcerInit

\* the client ids a call with this argument may consume stay within MaxClients
WithinClients(clientInfos) ==
    nc.nextClientId + (IF IsArray(clientInfos) THEN Len(clientInfos) ELSE 0)
        <= MaxClients + 1

\* the ways snc_meister_add_clients_svc can run on this argument: one,
\* unless it reads f->queueIds[1] of a one-hop flow; then one for either
\* value the comparison may yield
Outcomes(clientInfos) ==
    LET Either(r) ==
            IF r.ub
            THEN {r, snc_meister_add_clients_svc(nc, clientInfoStore,
                                                 clientInfos, FALSE)}
            ELSE {r}
    IN Either(snc_meister_add_clients_svc(nc, clientInfoStore, clientInfos,
                                          TRUE))

\* snc_meister_add_clients_svc returns
AddClients(clientInfos) ==
    /\ running
    /\ WithinClients(clientInfos)
    /\ \E r \in Outcomes(clientInfos) :
        /\ r.ok
        /\ nc' = r.nc
        /\ clientInfoStore' = r.clientInfoStore
        /\ result' = r.result
        /\ clientIds' = r.clientIds
        /\ affectedFlows' = r.affectedFlows
        /\ sent' = r.sent
    /\ UNCHANGED <<running, opVars>>

\* snc_meister_add_clients_svc does not return: an assert of the analysis
\* fails, or the read past the end of a vector faults
AddClientsAbort(clientInfos) ==
    /\ running
    /\ WithinClients(clientInfos)
    /\ \E r \in Outcomes(clientInfos) : ~r.ok \/ r.ub
    /\ running' = FALSE
    /\ UNCHANGED <<nc, clientInfoStore, result, clientIds, affectedFlows, sent>>
    /\ UNCHANGED opVars

\* snc_meister_del_client_svc; the assert on clientInfoStore holds because
\* add_clients stores every client it keeps
DelClient(name) ==
    LET clientId == getClientIdByName(nc, name)
    IN /\ running
       /\ IF clientId = InvalidClientId
          THEN /\ result' = [op |-> "del_client",
                             status |-> "SNC_ERR_CLIENT_NAME_NONEXISTENT"]
               /\ sent' = <<>>
               /\ UNCHANGED <<nc, clientInfoStore>>
          ELSE /\ clientId \in DOMAIN clientInfoStore
               /\ sent' = RemovalsOfFlows(clientInfoStore[clientId].flows, 1)
               /\ clientInfoStore' = MapErase(clientInfoStore, clientId)
               /\ nc' = delClient(nc, clientId)
               /\ result' = [op |-> "del_client", status |-> "SNC_SUCCESS"]
       /\ clientIds' = {}
       /\ affectedFlows' = {}
       /\ UNCHANGED <<running, opVars>>

\* the status snc_meister_add_queue_svc returns
AddQueueStatus(n, queueInfo) ==
    IF queueInfo = NotJSON THEN "SNC_ERR_INVALID_ARGUMENT"
    ELSE IF "name" \notin DOMAIN queueInfo THEN "SNC_ERR_MISSING_ARGUMENT"
    ELSE IF getQueueIdByName(n, queueInfo.name) # InvalidQueueId
    THEN "SNC_ERR_QUEUE_NAME_IN_USE"
    ELSE IF "bandwidth" \notin DOMAIN queueInfo THEN "SNC_ERR_MISSING_ARGUMENT"
    ELSE IF queueInfo.bandwidth <= 0 THEN "SNC_ERR_INVALID_ARGUMENT"
    ELSE "SNC_SUCCESS"

\* snc_meister_add_queue_svc
AddQueue(queueInfo) ==
    /\ running
    /\ nc.nextQueueId <= MaxQueues
    /\ result' = [op |-> "add_queue", status |-> AddQueueStatus(nc, queueInfo)]
    /\ nc' = IF AddQueueStatus(nc, queueInfo) = "SNC_SUCCESS"
             THEN addQueue(nc, queueInfo) ELSE nc
    /\ clientIds' = {}
    /\ affectedFlows' = {}
    /\ sent' = <<>>
    /\ UNCHANGED <<clientInfoStore, running, opVars>>

\* a del_queue that does not look at the queue's flow list
DelQueueStatusNameOnly(n, name) ==
    IF getQueueIdByName(n, name) = InvalidQueueId
    THEN "SNC_ERR_QUEUE_NAME_NONEXISTENT"
    ELSE "SNC_SUCCESS"

\* the status snc_meister_del_queue_svc returns
DelQueueStatus(n, name) ==
    IF getQueueIdByName(n, name) = InvalidQueueId
    THEN "SNC_ERR_QUEUE_NAME_NONEXISTENT"
    ELSE IF n.queues[getQueueIdByName(n, name)].flows # <<>>
    THEN "SNC_ERR_QUEUE_HAS_ACTIVE_FLOWS"
    ELSE "SNC_SUCCESS"

\* snc_meister_del_queue_svc
DelQueue(name) ==
    /\ running
    /\ result' = [op |-> "del_queue", status |-> DelQueueStatus(nc, name)]
    /\ nc' = IF DelQueueStatus(nc, name) = "SNC_SUCCESS"
             THEN delQueue(nc, getQueueIdByName(nc, name)) ELSE nc
    /\ clientIds' = {}
    /\ affectedFlows' = {}
    /\ sent' = <<>>
    /\ UNCHANGED <<clientInfoStore, running, opVars>>

Next ==
    \/ \E clientInfos \in Batches : AddClients(clientInfos)
    \/ \E clientInfos \in Batches : AddClientsAbort(clientInfos)
    \/ \E name \in ClientNames : DelClient(name)
    \/ \E queueInfo \in QueueInfos : AddQueue(queueInfo)
    \/ \E name \in QueueNames : DelQueue(name)

Spec == Init /\ [][Next]_vars

-----------------------------------------------------------------------------
(* A DependencyParams object under its member functions *)

\* setDependent calls made on dp
MaxDependent == 3

\* arguments of setP and setQ: below, at and above 1, a double so large
\* that its reciprocal is lost against 1.0, +infinity and NaN
PValues ==
    { Ratio(0, 1), Ratio(1, 2), One, Ratio(1001, 1000), Ratio(5, 4),
      Ratio(3, 2), Ratio(2, 1), Ratio(3, 1), Huge, PosInf, NaN }

SetP(x) ==
    /\ dp' = setP(dp, x)
    /\ dpCall' = [op |-> "setP", arg |-> x]
    /\ UNCHANGED <<pool, search, mgf, hop, aggregation, enforcer, serverVars>>

SetQ(x) ==
    /\ dp' = setQ(dp, x)
    /\ dpCall' = [op |-> "setQ", arg |-> x]
    /\ UNCHANGED <<pool, search, mgf, hop, aggregation, enforcer, serverVars>>

ResetOptBounds ==
    /\ dp' = resetOptBounds(dp)
    /\ dpCall' = [op |-> "resetOptBounds"]
    /\ UNCHANGED <<pool, search, mgf, hop, aggregation, enforcer, serverVars>>

SetDependent ==
    /\ Len(dp.dependentBounds) < MaxDependent
    /\ dp' = setDependent(dp)
    /\ dpCall' = [op |-> "setDependent"]
    /\ UNCHANGED <<pool, search, mgf, hop, aggregation, enforcer, serverVars>>

NextParams ==
    \/ \E x \in PValues : SetP(x)
    \/ \E x \in PValues : SetQ(x)
    \/ ResetOptBounds
    \/ SetDependent

SpecParams == Init /\ [][NextParams]_vars

-----------------------------------------------------------------------------
(* SNC operators constructed from arrivals and services *)

\* operators kept at a time, and levels of operators below an operator
MaxPool == 4
MaxDepth == 2

\* the flows whose arrivals are used: a flow id with the dependency set of
\* its arrival, which holds the flow itself and the flows of the clients
\* its client was declared dependent on
Arrivals ==
    { [flowId |-> 1, arrival |-> [rate |-> 1, dependencies |-> {1}]],
      [flowId |-> 2, arrival |-> [rate |-> 1, dependencies |-> {2}]],
      [flowId |-> 1, arrival |-> [rate |-> 1, dependencies |-> {1, 3}]],
      [flowId |-> 2, arrival |-> [rate |-> 1, dependencies |-> {2, 3}]] }

IsArrival(node) ==
    node.type \in {"MMBPArrival", "AggregateArrival", "OutputArrival"}
IsService(node) ==
    node.type \in {"ConstantService", "ConvolutionService", "LeftoverService"}
IsComposite(node) == "A" \in DOMAIN node

RECURSIVE Depth(_)
Depth(node) ==
    IF IsComposite(node) THEN 1 + Max(Depth(node.A), Depth(node.B)) ELSE 0

\* operators X and Y may get an operator above them
Room(X, Y) ==
    /\ Cardinality(pool) < MaxPool
    /\ Depth(X) < MaxDepth /\ Depth(Y) < MaxDepth

Construct(node) ==
    /\ pool' = pool \cup {node}
    /\ UNCHANGED <<dp, dpCall, search, mgf, hop, aggregation, enforcer, serverVars>>

NewArrival(f) == Cardinality(pool) < MaxPool /\ Construct(ArrivalOf(f))

NewConstantService(c) == Cardinality(pool) < MaxPool /\ Construct(ConstantService(c))

NewAggregateArrival(A, B) ==
    IsArrival(A) /\ IsArrival(B) /\ Room(A, B) /\ Construct(AggregateArrival(A, B))

NewConvolutionService(S, T) ==
    IsService(S) /\ IsService(T) /\ Room(S, T) /\ Construct(ConvolutionService(S, T))

NewOutputArrival(A, S) ==
    IsArrival(A) /\ IsService(S) /\ Room(A, S) /\ Construct(OutputArrival(A, S))

NewLeftoverService(A, S) ==
    IsArrival(A) /\ IsService(S) /\ Room(A, S) /\ Construct(LeftoverService(A, S))

NewLatencyBound(A, S) ==
    /\ IsArrival(A) /\ IsService(S) /\ Room(A, S)
    /\ Construct(LatencyBound(A, S, [num |-> 1, den |-> FullPercentile]))

\* the sequences that hold every element of S once
RECURSIVE Perms(_)
Perms(S) ==
    IF S = {} THEN {<<>>}
    ELSE UNION { { <<x>> \o seq : seq \in Perms(S \ {x}) } : x \in S }

\* arrivals handed to one call of aggregateArrivals
MaxArrivals == 3

\* the vectors of distinct arrivals of the pool, none empty
ArrivalVectors ==
    LET A == {node \in pool : IsArrival(node)}
    IN UNION { Perms(S) : S \in (SUBSET A) \ {{}} }

\* aggregateArrivals(arrivals, toDelete): arrivalGroups after the first k
\* arrivals, for every k, and the aggregate returned
AggregateArrivals(arrivals) ==
    /\ Len(arrivals) <= MaxArrivals
    /\ aggregation' =
            [op |-> "aggregateArrivals", arrivals |-> arrivals,
             arrivalGroups |->
                [k \in 0..Len(arrivals) |->
                    GroupArrivals(SubSeq(arrivals, 1, k), 1, <<>>)],
             aggregate |-> aggregateArrivals(arrivals)]
    /\ UNCHANGED <<dp, dpCall, pool, search, mgf, hop, enforcer, serverVars>>

NextOperators ==
    \/ \E arrivals \in ArrivalVectors : AggregateArrivals(arrivals)
    \/ \E f \in Arrivals : NewArrival(f)
    \/ NewConstantService(3)
    \/ \E A, B \in pool : NewAggregateArrival(A, B)
    \/ \E S, T \in pool : NewConvolutionService(S, T)
    \/ \E A, S \in pool : NewOutputArrival(A, S)
    \/ \E A, S \in pool : NewLeftoverService(A, S)
    \/ \E A, S \in pool : NewLatencyBound(A, S)

SpecOperators == Init /\ [][NextOperators]_vars

-----------------------------------------------------------------------------
(* LatencyBound::dependencyOptimization on a bound with dependent nodes *)

\* calls of dependencyOptimization on one LatencyBound, and dependent nodes
\* of a LatencyBound
MaxCalls == 2
MaxBounds == 2

SEARCH_RANGE_DECREASE_COUNT == 25
ITERATION_COUNT(bounds) == Len(bounds) * 10

\* The doubles of the search are kept to three decimal places: Unit is 1.0,
\* and k stands for k / Unit
Unit == 1000
Grid(k) == Ratio(k, Unit)
ToGrid(x) ==
    (x.num \div x.den) * Unit + ((x.num % x.den) * Unit) \div x.den
\* 1.001, the least lower end of a bracket
LeastLower == 1001

\* srand(1) and rand(): a linear congruential generator of full period,
\* with values 0 .. RandMax
Seed == 1
RandMax == 31
rand(next) == (next * 5 + 3) % (RandMax + 1)

\* What calcLatency() returns depends on the operators below the bound,
\* which the search does not change, and on the p of the dependent nodes:
\* here the distance of the p values from the p that is best for the
\* operators, in grid units
RECURSIVE Distance(_, _, _)
Distance(best, bounds, index) ==
    IF index > Len(bounds) THEN 0
    ELSE Abs(ToGrid(bounds[index].p) - best) + Distance(best, bounds, index + 1)
calcLatencyOf(best, bounds) == Distance(best, bounds, 1)

\* the p that are best for the operators: 2.0, 1.5, and 3.0 (q = 1.5)
BestPs == {2000, 1500, 3000}

\* "Set p/q" for one bound, with the value x that rand() returned
SetPQ(bound, x) ==
    LET searchRangeP == ToGrid(bound.upperP) - ToGrid(bound.lowerP)
        searchRangeQ == ToGrid(bound.upperQ) - ToGrid(bound.lowerQ)
        r == (x * (searchRangeP + searchRangeQ)) \div RandMax
    IN IF r <= searchRangeP
       THEN setP(bound, Grid(ToGrid(bound.lowerP) + r))
       ELSE setQ(bound, Grid(ToGrid(bound.lowerQ) + (r - searchRangeP)))

\* "Set p/q": the loop over all bounds, one rand() each
RECURSIVE SetAllPQ(_, _, _)
SetAllPQ(bounds, index, next) ==
    IF index > Len(bounds) THEN [bounds |-> bounds, next |-> next]
    ELSE SetAllPQ([bounds EXCEPT ![index] = SetPQ(@, rand(next))],
                  index + 1, rand(next))

\* "Update search space" for one bound
UpdateBracket(bound, bestP) ==
    LET Bracket(b, searchRangeP, searchRangeQ) ==
            LET lowerP == Max(ToGrid(b.p) - searchRangeP \div 2, LeastLower)
                lowerQ == Max(ToGrid(b.q) - searchRangeQ \div 2, LeastLower)
            IN [b EXCEPT !.lowerP = Grid(lowerP),
                         !.upperP = Grid(lowerP + searchRangeP),
                         !.lowerQ = Grid(lowerQ),
                         !.upperQ = Grid(lowerQ + searchRangeQ)]
    IN Bracket(setP(bound, bestP),
               ((ToGrid(bound.upperP) - ToGrid(bound.lowerP)) * 5) \div 6,
               ((ToGrid(bound.upperQ) - ToGrid(bound.lowerQ)) * 5) \div 6)

PsOf(bounds) == [index \in 1..Len(bounds) |-> bounds[index].p]

\* A LatencyBound is constructed above n operators whose constructors
\* called setDependent()
BuildBound(n, best) ==
    /\ search.pc = "none"
    /\ search' = [pc |-> "idle", best |-> best,
                  bounds |-> [index \in 1..n |-> setDependent(DependencyParams)],
                  minLatency |-> 0, bestP |-> <<>>, next |-> 0,
                  i |-> 0, iter |-> 0, returned |-> <<>>]
    /\ UNCHANGED <<dp, dpCall, pool, mgf, hop, aggregation, enforcer, serverVars>>

\* dependencyOptimization() is called: up to srand(1), or to the early exit
CallOptimization ==
    /\ search.pc = "idle"
    /\ Len(search.returned) < MaxCalls
    /\ search' =
         IF Len(search.bounds) = 0
         THEN [search EXCEPT
                !.minLatency = calcLatencyOf(search.best, search.bounds),
                !.returned = Append(@, calcLatencyOf(search.best, search.bounds))]
         ELSE [search EXCEPT
                !.pc = "search",
                !.minLatency = calcLatencyOf(search.best, search.bounds),
                !.bestP = PsOf(search.bounds),
                !.next = Seed, !.i = 0, !.iter = 0]
    /\ UNCHANGED <<dp, dpCall, pool, mgf, hop, aggregation, enforcer, serverVars>>

\* one pass of the loop over iter: "Set p/q", "Check for better latency"
Trial ==
    /\ search.pc = "search"
    /\ search.iter < ITERATION_COUNT(search.bounds)
    /\ LET Check(set, latency) ==
               [search EXCEPT
                  !.bounds = set.bounds, !.next = set.next,
                  !.iter = @ + 1,
                  !.minLatency = IF latency < @ THEN latency ELSE @,
                  !.bestP = IF latency < search.minLatency
                            THEN PsOf(set.bounds) ELSE @]
           Set(set) == Check(set, calcLatencyOf(search.best, set.bounds))
       IN search' = Set(SetAllPQ(search.bounds, 1, search.next))
    /\ UNCHANGED <<dp, dpCall, pool, mgf, hop, aggregation, enforcer, serverVars>>

\* the end of a pass of the loop over i: "Update search space"; after the
\* last pass dependencyOptimization returns minLatency
UpdateSearchSpace ==
    /\ search.pc = "search"
    /\ search.iter = ITERATION_COUNT(search.bounds)
    /\ LET Updated(bounds) ==
               IF search.i + 1 < SEARCH_RANGE_DECREASE_COUNT
               THEN [search EXCEPT !.bounds = bounds, !.i = @ + 1, !.iter = 0]
               ELSE [search EXCEPT !.bounds = bounds, !.i = @ + 1,
                                   !.pc = "idle",
                                   !.returned = Append(@, search.minLatency)]
       IN search' = Updated([index \in 1..Len(search.bounds) |->
                        UpdateBracket(search.bounds[index], search.bestP[index])])
    /\ UNCHANGED <<dp, dpCall, pool, mgf, hop, aggregation, enforcer, serverVars>>

NextSearch ==
    \/ \E n \in 0..MaxBounds : \E best \in BestPs : BuildBound(n, best)
    \/ CallOptimization
    \/ Trial
    \/ UpdateSearchSpace

SpecSearch == Init /\ [][NextSearch]_vars

-----------------------------------------------------------------------------
(* MGF.cpp: the moment generating functions of the request sizes *)

\* sample requests added to one MGF object
MaxSamples == 2

\* double arithmetic on ratios, +infinity and NaN.  No value is negative
\* but the difference work - _meanSize, which is multiplied by itself
IsFinite(x) == x.k = "ratio"
RAdd(a, b) ==
    IF a = NaN \/ b = NaN THEN NaN
    ELSE IF a = PosInf \/ b = PosInf THEN PosInf
    ELSE Ratio(a.num * b.den + b.num * a.den, a.den * b.den)
RSub(a, b) ==
    IF a = NaN \/ b = NaN THEN NaN
    ELSE IF a = PosInf THEN PosInf
    ELSE Ratio(a.num * b.den - b.num * a.den, a.den * b.den)
RMul(a, b) ==
    IF a = NaN \/ b = NaN THEN NaN
    ELSE IF a = PosInf THEN (IF b = PosInf \/ b.num # 0 THEN PosInf ELSE NaN)
    ELSE IF b = PosInf THEN (IF a.num # 0 THEN PosInf ELSE NaN)
    ELSE Ratio(a.num * b.num, a.den * b.den)
RDiv(a, b) ==
    IF a = NaN \/ b = NaN THEN NaN
    ELSE IF a = PosInf THEN (IF b = PosInf THEN NaN ELSE PosInf)
    ELSE IF b = PosInf THEN Ratio(0, 1)
    ELSE IF b.num = 0 THEN (IF a.num = 0 THEN NaN ELSE PosInf)
    ELSE Ratio(a.num * b.den, a.den * b.num)
RLess(a, b) ==
    IF a = NaN \/ b = NaN \/ a = PosInf THEN FALSE
    ELSE IF b = PosInf THEN TRUE
    ELSE a.num * b.den < b.num * a.den

\* exp(x) for x >= 0: +infinity above the largest argument whose
\* exponential is a double, 709.78...; else a finite double, of which the
\* first two terms of the series are kept
ExpOverflow == 709
Exp(x) ==
    IF x = NaN THEN NaN
    ELSE IF x = PosInf \/ x.num > ExpOverflow * x.den THEN PosInf
    ELSE RAdd(One, x)

\* "use large lambda in case of no sample Requests"
LargeLambda == Ratio(1000000, 1)

\* the constructors; _p is not initialized
Unset == [k |-> "unset"]
MGFTypes ==
    {"MGFDeterministic", "MGFExponential", "MGFHyperexponential",
     "MGFHyperexponentialGetPut", "MGFTrace"}
NewMGF(type) ==
    IF type = "MGFDeterministic" THEN
        [type |-> type, p |-> Unset, totalSize |-> Ratio(0, 1), count |-> 0,
         meanSize |-> Ratio(0, 1)]
    ELSE IF type = "MGFExponential" THEN
        [type |-> type, p |-> Unset, totalSize |-> Ratio(0, 1), count |-> 0,
         lambda |-> LargeLambda]
    ELSE IF type = "MGFHyperexponential" THEN
        [type |-> type, p |-> Unset, meanSize |-> Ratio(0, 1),
         varSumSize |-> Ratio(0, 1), count |-> 0,
         lambda1 |-> LargeLambda, lambda2 |-> LargeLambda,
         prob1 |-> Ratio(0, 1)]
    ELSE IF type = "MGFHyperexponentialGetPut" THEN
        [type |-> type, p |-> Unset, getSize |-> Ratio(0, 1),
         putSize |-> Ratio(0, 1), getCount |-> 0, putCount |-> 0,
         lambda1 |-> LargeLambda, lambda2 |-> LargeLambda,
         prob1 |-> Ratio(0, 1)]
    ELSE [type |-> type, p |-> Unset, sizes |-> <<>>]

\* _p * MGFIncrement + (1.0 - _p)
WithProbRequest(p, MGFIncrement) == RAdd(RMul(p, MGFIncrement), RSub(One, p))

RECURSIVE SumExp(_, _, _)
SumExp(sizes, theta, it) ==
    IF it > Len(sizes) THEN Ratio(0, 1)
    ELSE RAdd(Exp(RMul(sizes[it], theta)), SumExp(sizes, theta, it + 1))

\* calcMGF(theta) of the five classes; p is the value read from _p
calcMGF(m, p, theta) ==
    IF m.type = "MGFDeterministic" THEN
        WithProbRequest(p, Exp(RMul(m.meanSize, theta)))
    ELSE IF m.type = "MGFExponential" THEN
        IF RLess(theta, m.lambda)
        THEN WithProbRequest(p, RDiv(m.lambda, RSub(m.lambda, theta)))
        ELSE PosInf
    ELSE IF m.type = "MGFTrace" THEN
        IF m.sizes = <<>> THEN One
        ELSE WithProbRequest(p, RDiv(SumExp(m.sizes, theta, 1),
                                     Ratio(Len(m.sizes), 1)))
    ELSE \* MGFHyperexponential and MGFHyperexponentialGetPut
        IF RLess(theta, m.lambda1) /\ RLess(theta, m.lambda2)
        THEN WithProbRequest(p,
                RAdd(RDiv(RMul(m.prob1, m.lambda1), RSub(m.lambda1, theta)),
                     RDiv(RMul(RSub(One, m.prob1), m.lambda2),
                          RSub(m.lambda2, theta))))
        ELSE PosInf

\* MGFHyperexponential::addSampleRequest
addSampleHyperexponential(m, work) ==
    LET count == m.count + 1
        diff == RSub(work, m.meanSize)
        varSumSize == RAdd(m.varSumSize,
                           RDiv(RMul(Ratio(count - 1, 1), RMul(diff, diff)),
                                Ratio(count, 1)))
        meanSize == RAdd(m.meanSize, RDiv(diff, Ratio(count, 1)))
        lambdaAvg == RDiv(One, meanSize)
        sampleVar == RDiv(varSumSize, Ratio(count - 1, 1))
        C2 == RDiv(sampleVar, RMul(meanSize, meanSize))
    IN IF IsFinite(C2) /\ ~RLess(C2, One)
       THEN [m EXCEPT !.count = count, !.varSumSize = varSumSize,
                      !.meanSize = meanSize,
                      !.lambda1 = RDiv(lambdaAvg, C2),
                      !.lambda2 = RMul(lambdaAvg, Ratio(2, 1)),
                      !.prob1 = RDiv(One, RSub(RMul(Ratio(2, 1), C2), One))]
       ELSE [m EXCEPT !.count = count, !.varSumSize = varSumSize,
                      !.meanSize = meanSize,
                      !.lambda1 = lambdaAvg, !.lambda2 = lambdaAvg,
                      !.prob1 = One]

\* addSampleRequest(traceEntry) of the five classes
addSampleRequest(m, work, isGet) ==
    IF m.type = "MGFDeterministic" THEN
        [m EXCEPT !.totalSize = RAdd(@, work), !.count = @ + 1,
                  !.meanSize = RDiv(RAdd(m.totalSize, work),
                                    Ratio(m.count + 1, 1))]
    ELSE IF m.type = "MGFExponential" THEN
        [m EXCEPT !.totalSize = RAdd(@, work), !.count = @ + 1,
                  !.lambda = RDiv(Ratio(m.count + 1, 1),
                                  RAdd(m.totalSize, work))]
    ELSE IF m.type = "MGFHyperexponential" THEN
        addSampleHyperexponential(m, work)
    ELSE IF m.type = "MGFHyperexponentialGetPut" THEN
        IF isGet
        THEN [m EXCEPT !.getSize = RAdd(@, work), !.getCount = @ + 1,
                       !.lambda1 = RDiv(Ratio(m.getCount + 1, 1),
                                        RAdd(m.getSize, work)),
                       !.prob1 = Ratio(m.getCount + 1,
                                       m.getCount + 1 + m.putCount)]
        ELSE [m EXCEPT !.putSize = RAdd(@, work), !.putCount = @ + 1,
                       !.lambda2 = RDiv(Ratio(m.putCount + 1, 1),
                                        RAdd(m.putSize, work)),
                       !.prob1 = Ratio(m.getCount,
                                       m.getCount + m.putCount + 1)]
    ELSE [m EXCEPT !.sizes = Append(@, work)]

\* the samples an object has been given
Samples(m) ==
    IF m.type = "MGFTrace" THEN Len(m.sizes)
    ELSE IF m.type = "MGFHyperexponentialGetPut" THEN m.getCount + m.putCount
    ELSE m.count

\* traceEntry.work, probabilities of a request, and theta
Works == {Ratio(1, 1), Ratio(9, 1)}
Probabilities == {Ratio(0, 1), Ratio(1, 2), One}
Thetas == {Ratio(1, 2), One, Ratio(1000, 1)}

ConstructMGF(type) ==
    /\ mgf.type = "none"
    /\ mgf' = [object |-> NewMGF(type), type |-> type, call |-> NoCall]
    /\ UNCHANGED <<dp, dpCall, pool, search, hop, aggregation, enforcer, serverVars>>

AddSampleRequest(work, isGet) ==
    /\ mgf.type # "none"
    /\ Samples(mgf.object) < MaxSamples
    /\ mgf' = [mgf EXCEPT !.object = addSampleRequest(@, work, isGet)]
    /\ UNCHANGED <<dp, dpCall, pool, search, hop, aggregation, enforcer, serverVars>>

SetProbRequest(probRequest) ==
    /\ mgf.type # "none"
    /\ mgf' = [mgf EXCEPT !.object.p = probRequest]
    /\ UNCHANGED <<dp, dpCall, pool, search, hop, aggregation, enforcer, serverVars>>

\* calcMGF(theta); before setProbRequest it reads an uninitialized _p
CalcMGF(theta) ==
    /\ mgf.type # "none"
    /\ \E p \in IF mgf.object.p = Unset THEN Probabilities
                 ELSE {mgf.object.p} :
            mgf' = [mgf EXCEPT !.call =
                        [op |-> "calcMGF", theta |-> theta, p |-> p,
                         value |-> calcMGF(mgf.object, p, theta)]]
    /\ UNCHANGED <<dp, dpCall, pool, search, hop, aggregation, enforcer, serverVars>>

NextMGF ==
    \/ \E type \in MGFTypes : ConstructMGF(type)
    \/ \E work \in Works : \E isGet \in BOOLEAN : AddSampleRequest(work, isGet)
    \/ \E probRequest \in Probabilities : SetProbRequest(probRequest)
    \/ \E theta \in Thetas : CalcMGF(theta)

SpecMGF == Init /\ [][NextMGF]_vars

-----------------------------------------------------------------------------
(* SNC.cpp: the hop-by-hop analysis, on an SNC object used as a library *)

\* priorityCompare of NC.cpp
priorityCompare(f1, f2) ==
    IF f1.priority = f2.priority THEN DGreater(f1.latency, f2.latency)
    ELSE f1.priority < f2.priority

\* priorityCompare is a strict weak ordering of the flows S, as std::sort
\* requires: being unordered is transitive.  A NaN latency between two
\* different latencies of the same priority breaks it
StrictWeakOrdering(n, S) ==
    LET Unordered(a, b) == /\ ~priorityCompare(n.flows[a], n.flows[b])
                           /\ ~priorityCompare(n.flows[b], n.flows[a])
    IN \A a, b, c \in S : Unordered(a, b) /\ Unordered(b, c) => Unordered(a, c)

\* a sequence of flows in which no flow comes before one it is to follow
InPriorityOrder(n, seq) ==
    \A i, j \in 1..Len(seq) :
        i < j => ~priorityCompare(n.flows[seq[j]], n.flows[seq[i]])

\* the flows pushed to sortedFlows before the sort
HigherPriorityFlows(n, flow) ==
    { g \in DOMAIN n.flows :
        n.flows[g].priority <= flow.priority /\ g # flow.flowId }

\* sortedFlows after sort(): std::sort leaves flows that are unordered in
\* any order; without a strict weak ordering its behaviour is undefined and
\* any order may come out
SortedFlows(n, flow) ==
    LET S == HigherPriorityFlows(n, flow)
    IN IF StrictWeakOrdering(n, S)
       THEN { seq \in Perms(S) : InPriorityOrder(n, seq) }
       ELSE Perms(S)

\* the loop over the queues of flow f: acc carries q->leftoverService of
\* every queue, the arrival of f at the queue, and, for the target flow,
\* the latency bounds evaluated
RECURSIVE HopLoop(_, _, _, _)
HopLoop(f, target, index, acc) ==
    IF index > Len(f.queueIds) THEN acc
    ELSE LET q == f.queueIds[index]
             service == acc.leftoverService[q]
         IN HopLoop(f, target, index + 1,
              [leftoverService |->
                    [acc.leftoverService EXCEPT
                        ![q] = LeftoverService(acc.arrival, service)],
               arrival |-> OutputArrival(acc.arrival, service),
               bounds |->
                    IF target
                    THEN Append(acc.bounds,
                            LatencyBound(acc.arrival, service,
                                [num |-> f.epsilon.num,
                                 den |-> f.epsilon.den * Len(f.queueIds)]))
                    ELSE acc.bounds])

\* the loop over sortedFlows
RECURSIVE FlowLoop(_, _, _, _, _)
FlowLoop(n, flow, sortedFlows, i, acc) ==
    IF i > Len(sortedFlows) THEN acc
    ELSE LET f == n.flows[sortedFlows[i]]
         IN FlowLoop(n, flow, sortedFlows, i + 1,
                HopLoop(f, f.flowId = flow.flowId, 1,
                        [acc EXCEPT !.arrival = ArrivalOf(f)]))

RECURSIVE SumLatencies(_, _)
SumLatencies(bounds, it) ==
    IF it > Len(bounds) THEN Fin(0)
    ELSE DAdd(dependencyOptimization(bounds[it]), SumLatencies(bounds, it + 1))

\* SNC::hopByHopAnalysis(flow) for a flow that is not NULL, with the order
\* sort() left: the flows in the order processed, the latency bounds
\* evaluated for the flow, and flow->latency
hopByHopAnalysis(n, flow, sorted) ==
    LET sortedFlows == Append(sorted, flow.flowId)
        Result(acc) ==
            [op |-> "hopByHopAnalysis", flowId |-> flow.flowId,
             sortedFlows |-> sortedFlows, bounds |-> acc.bounds,
             latency |-> SumLatencies(acc.bounds, 1)]
    IN Result(FlowLoop(n, flow, sortedFlows, 1,
                [leftoverService |->
                    [q \in DOMAIN n.queues |->
                        ConstantService(n.queues[q].bandwidth)],
                 arrival |-> ArrivalOf(flow), bounds |-> <<>>]))

\* the networks the library object is given: queues Q1, Q2 and Q3, then
\* the clients in this order
HopQueues ==
    << [name |-> "Q1", bandwidth |-> 3], [name |-> "Q2", bandwidth |-> 4],
       [name |-> "Q3", bandwidth |-> 2] >>
HopNetworks == { <<ClientA, ClientB, ClientCOver>>, <<ClientB, ClientA>> }
HopPriorities == {1, 2}

RECURSIVE addQueues(_, _, _)
addQueues(n, queueInfos, it) ==
    IF it > Len(queueInfos) THEN n
    ELSE addQueues(addQueue(n, queueInfos[it]), queueInfos, it + 1)

RECURSIVE addClients(_, _, _)
addClients(n, clientInfos, it) ==
    IF it > Len(clientInfos) THEN n
    ELSE addClients(addClient(n, clientInfos[it]), clientInfos, it + 1)

\* the calls of addQueue and addClient that set a network up
HopBuildNetwork(clientInfos) ==
    /\ nc = NCInit
    /\ nc' = addClients(addQueues(nc, HopQueues, 1), clientInfos, 1)
    /\ hop' = [op |-> "addClient"]
    /\ UNCHANGED <<clientInfoStore, result, clientIds, affectedFlows, sent,
                   running, dp, dpCall, pool, search, mgf,
                   aggregation,
                   enforcer>>

\* setFlowPriority(flowId, priority) on the library object
HopSetFlowPriority(flowId, priority) ==
    /\ flowId \in DOMAIN nc.flows
    /\ nc' = setFlowPriority(nc, flowId, priority)
    /\ hop' = [op |-> "setFlowPriority"]
    /\ UNCHANGED <<clientInfoStore, result, clientIds, affectedFlows, sent,
                   running, dp, dpCall, pool, search, mgf,
                   aggregation,
                   enforcer>>

\* calcFlowLatency(flowId) with _algorithm = SNC_ALGORITHM_HOP_BY_HOP
HopCalcFlowLatency(flowId) ==
    /\ flowId \in DOMAIN nc.flows
    /\ \E sorted \in SortedFlows(nc, nc.flows[flowId]) :
         LET Store(r) ==
                /\ hop' = r
                /\ nc' = [nc EXCEPT !.flows[flowId].latency = r.latency]
         IN Store(hopByHopAnalysis(nc, nc.flows[flowId], sorted))
    /\ UNCHANGED <<clientInfoStore, result, clientIds, affectedFlows, sent,
                   running, dp, dpCall, pool, search, mgf,
                   aggregation,
                   enforcer>>

NextHop ==
    \/ \E clientInfos \in HopNetworks : HopBuildNetwork(clientInfos)
    \/ \E flowId \in 1..4 : \E priority \in HopPriorities :
            HopSetFlowPriority(flowId, priority)
    \/ \E flowId \in 1..4 : HopCalcFlowLatency(flowId)

SpecHop == Init /\ [][NextHop]_vars

-----------------------------------------------------------------------------
(* NetEnforcer.cpp: the client map and the TC filters *)

\* ids handed out, and updates or removals in one RPC
MaxIds == 3
MaxUpdates == 2

g_numPriorities == 7
rootHTBHandle == 1
rootHTBMinor(priority) == priority + 1

\* the (s_dstAddr, s_srcAddr) pairs and the priorities of the RPCs
Addrs == { <<1, 2>>, <<1, 3>> }
UpdatePriorities == {0, 6, 7, 8}

\* removeFilter(parentHandle, id): tc filter del ... parent parentHandle:
\* prio id u32 deletes every filter of that parent and prio
removeFilter(e, parentHandle, id) ==
    [e EXCEPT !.filters =
        SelectSeq(@, LAMBDA f : ~(f.parent = parentHandle /\ f.prio = id))]

\* addFilter(parentHandle, id, s_dstAddr, s_srcAddr, minor): tc filter add
\* ... prio id u32 match ip dst .. match ip src .. flowid parentHandle:minor
addFilter(e, parentHandle, id, s_dstAddr, s_srcAddr, minor) ==
    [e EXCEPT !.filters =
        Append(@, [parent |-> parentHandle, prio |-> id, dst |-> s_dstAddr,
                   src |-> s_srcAddr, flowid |-> <<parentHandle, minor>>])]

\* g_clients with c stored under addr
WithClient(e, addr, c) ==
    [e EXCEPT !.g_clients =
        [a \in DOMAIN @ \cup {addr} |-> IF a = addr THEN c ELSE @[a]]]

\* the update noted as accepted
Accept(e, addr, priority) ==
    [e EXCEPT !.accepted =
        [a \in DOMAIN @ \cup {addr} |-> IF a = addr THEN priority ELSE @[a]]]

\* an update of an existing client that adds the new filter and leaves the
\* old one in place
updateClientKeepFilter(e, s_dstAddr, s_srcAddr, priority) ==
    LET addr == <<s_dstAddr, s_srcAddr>>
        newClient == addr \notin DOMAIN e.g_clients
        id == IF newClient THEN e.g_nextId ELSE e.g_clients[addr].id
    IN IF priority >= g_numPriorities THEN e
       ELSE addFilter(
                WithClient([Accept(e, addr, priority) EXCEPT !.g_nextId =
                                IF newClient THEN @ + 1 ELSE @],
                           addr, [id |-> id, priority |-> priority]),
                rootHTBHandle, id, s_dstAddr, s_srcAddr, rootHTBMinor(priority))

\* updateClient(s_dstAddr, s_srcAddr, priority)
updateClient(e, s_dstAddr, s_srcAddr, priority) ==
    LET addr == <<s_dstAddr, s_srcAddr>>
        newClient == addr \notin DOMAIN e.g_clients
    IN IF priority >= g_numPriorities THEN e
       ELSE IF newClient
       THEN addFilter(
                WithClient([Accept(e, addr, priority) EXCEPT !.g_nextId = @ + 1],
                           addr, [id |-> e.g_nextId, priority |-> priority]),
                rootHTBHandle, e.g_nextId, s_dstAddr, s_srcAddr,
                rootHTBMinor(priority))
       ELSE IF e.g_clients[addr].priority # priority
       THEN addFilter(
                WithClient(
                    removeFilter(Accept(e, addr, priority), rootHTBHandle,
                                 e.g_clients[addr].id),
                    addr, [e.g_clients[addr] EXCEPT !.priority = priority]),
                rootHTBHandle, e.g_clients[addr].id, s_dstAddr, s_srcAddr,
                rootHTBMinor(priority))
       ELSE Accept(e, addr, priority)

\* removeClient(s_dstAddr, s_srcAddr)
removeClient(e, s_dstAddr, s_srcAddr) ==
    LET addr == <<s_dstAddr, s_srcAddr>>
        Erase(m) == [a \in DOMAIN m \ {addr} |-> m[a]]
    IN IF addr \in DOMAIN e.g_clients
       THEN [removeFilter(e, rootHTBHandle, e.g_clients[addr].id)
                EXCEPT !.g_clients = Erase(@), !.accepted = Erase(@)]
       ELSE e

\* the loop of net_enforcer_update_clients_svc
RECURSIVE UpdateLoop(_, _, _)
UpdateLoop(e, args, i) ==
    IF i > Len(args) THEN e
    ELSE UpdateLoop(updateClient(e, args[i].client[1], args[i].client[2],
                                 args[i].priority),
                    args, i + 1)

\* the loop of net_enforcer_remove_clients_svc
RECURSIVE RemoveLoop(_, _, _)
RemoveLoop(e, args, i) ==
    IF i > Len(args) THEN e
    ELSE RemoveLoop(removeClient(e, args[i][1], args[i][2]), args, i + 1)

\* the arguments of the two RPCs
NetClientUpdates == [client : Addrs, priority : UpdatePriorities]
NetUpdateClientsArgs ==
    UNION { [1..n -> NetClientUpdates] : n \in 1..MaxUpdates }
NetRemoveClientsArgs == UNION { [1..n -> Addrs] : n \in 1..MaxUpdates }

\* net_enforcer_update_clients_svc(argp)
NetEnforcerUpdateClients(args) ==
    /\ enforcer.g_nextId + Len(args) <= MaxIds + 1
    /\ enforcer' = [UpdateLoop(enforcer, args, 1) EXCEPT
                        !.call = [op |-> "update_clients", args |-> args]]
    /\ UNCHANGED <<dp, dpCall, pool, search, mgf, hop, aggregation, serverVars>>

\* net_enforcer_remove_clients_svc(argp)
NetEnforcerRemoveClients(args) ==
    /\ enforcer' = [RemoveLoop(enforcer, args, 1) EXCEPT
                        !.call = [op |-> "remove_clients", args |-> args]]
    /\ UNCHANGED <<dp, dpCall, pool, search, mgf, hop, aggregation, serverVars>>

NextEnforcer ==
    \/ \E args \in NetUpdateClientsArgs : NetEnforcerUpdateClients(args)
    \/ \E args \in NetRemoveClientsArgs : NetEnforcerRemoveClients(args)

SpecEnforcer == Init /\ [][NextEnforcer]_vars

-----------------------------------------------------------------------------
(* Properties *)

\* the last RPC was add_clients and it admitted, or refused, its batch
Admitted == result.op = "add_clients" /\ result.admitted
Refused == result.op = "add_clients" /\ ~result.admitted

FlowsOf(n, clientId) == Range(n.clients[clientId].flowIds)

\* C1: whenever add_clients returns admitted = true, every client of the
\* batch and every incumbent client owning a flow of the affected set has a
\* latency, as just computed, that is at most its SLO.
C1_AdmittedMeetsSLO ==
    Admitted =>
        \A c \in clientIds \cup AffectedClientIds(nc, affectedFlows) :
            DLessEq(nc.clients[c].latency, Fin(nc.clients[c].SLO))

\* what C2 compares: clients, flows (with priority, latency and arrival
\* dependencies), queues with their flow lists, and the three name maps
Registry(n) ==
    [clients |-> n.clients, flows |-> n.flows, queues |-> n.queues,
     clientIds |-> n.clientIds, flowIds |-> n.flowIds, queueIds |-> n.queueIds]

\* C2: a call of add_clients that returns admitted = false leaves the
\* registry as it was before the call: the same clients, flows, queues and
\* flow lists, every incumbent flow with its priority, latency and arrival
\* dependency set.
C2_RefusedLeavesRegistry ==
    [][(result'.op = "add_clients" /\ ~result'.admitted)
            => Registry(nc') = Registry(nc)]_vars

\* C3: when add_clients returns CLIENT_NAME_NONEXISTENT, which it detects
\* after inserting the batch, it returns admitted = false and no client or
\* flow of the batch is left in the registry maps, in a queue's flow list or
\* in the client-info store.
C3_DependencyErrorRollsBack ==
    (result.op = "add_clients"
        /\ result.status = "SNC_ERR_CLIENT_NAME_NONEXISTENT") =>
        /\ ~result.admitted
        /\ clientIds \cap DOMAIN nc.clients = {}
        /\ clientIds \cap DOMAIN clientInfoStore = {}
        /\ \A name \in DOMAIN nc.clientIds : nc.clientIds[name] \notin clientIds
        /\ \A f \in DOMAIN nc.flows : nc.flows[f].clientId \notin clientIds
        /\ \A name \in DOMAIN nc.flowIds : nc.flowIds[name] \in DOMAIN nc.flows
        /\ \A q \in DOMAIN nc.queues : \A i \in 1..Len(nc.queues[q].flows) :
                nc.queues[q].flows[i].flowId \in DOMAIN nc.flows

C3_Witness ==
    /\ result.op = "add_clients"
    /\ result.status = "SNC_ERR_CLIENT_NAME_NONEXISTENT"
    /\ clientIds # {}
    /\ DOMAIN nc.clients # {}

\* the latency bound the analysis gives flow f in registry n
BoundOf(n, f) == calcFlowLatency(n, f, TRUE)

\* C4: an incumbent flow whose latency bound changes because a batch was
\* added is in the affected set markAffectedFlows computed for the batch.
C4_ChangedIncumbentsAreAffected ==
    [][(result'.op = "add_clients" /\ result'.admitted) =>
        \A f \in DOMAIN nc.flows \cap DOMAIN nc'.flows :
            (/\ BoundOf(nc, f).ok
             /\ BoundOf(nc', f).ok
             /\ BoundOf(nc, f).latency # BoundOf(nc', f).latency)
                => \E fi \in affectedFlows' : fi.flowId = f]_vars

\* C5: when the sweep ends without a violation the affected set is a fixed
\* point: every flow of the batch is in it at index 0, and for every entry
\* (f, i) of the set and every queue at position >= i of f's path, every
\* entry of that queue's flow list whose flow has a priority number >= f's
\* is in the set.
C5_AffectedSetIsFixedPoint ==
    Admitted =>
        /\ \A c \in clientIds : \A f \in FlowsOf(nc, c) :
                [flowId |-> f, index |-> 0] \in affectedFlows
        /\ \A fi \in affectedFlows :
            \A pos \in (fi.index + 1)..Len(nc.flows[fi.flowId].queueIds) :
              \A e \in Range(nc.queues[nc.flows[fi.flowId].queueIds[pos]].flows) :
                nc.flows[e.flowId].priority >= nc.flows[fi.flowId].priority
                    => e \in affectedFlows

C5_Witness ==
    /\ Admitted
    /\ \E fi \in affectedFlows : fi.index = 1
    /\ \E fi \in affectedFlows : nc.flows[fi.flowId].clientId \notin clientIds

PriorityOf(f) == nc.flows[f].priority

\* the clients whose SLO no other client's SLO is below
SmallestSLO ==
    {c \in DOMAIN nc.clients :
        \A d \in DOMAIN nc.clients : nc.clients[c].SLO <= nc.clients[d].SLO}

\* C6: after configurePrioritiesBySLO on a registry with at least one
\* client, every flow of the clients with the smallest SLO has priority 0.
C6_SmallestSLOHasPriorityZero ==
    (Admitted /\ DOMAIN nc.clients # {}) =>
        \A c \in SmallestSLO : \A f \in FlowsOf(nc, c) : PriorityOf(f) = 0

\* every flow of c1 has a strictly smaller priority number than every flow
\* of c2; all flows of c1 and c2 have the same priority number
AllBelow(c1, c2) ==
    \A f \in FlowsOf(nc, c1) : \A g \in FlowsOf(nc, c2) :
        PriorityOf(f) < PriorityOf(g)
AllSame(c1, c2) ==
    \A f, g \in FlowsOf(nc, c1) \cup FlowsOf(nc, c2) :
        PriorityOf(f) = PriorityOf(g)

\* the SLO order and the priority order of clients c1 and c2 agree
OrdersAgree(c1, c2) ==
    /\ (nc.clients[c1].SLO < nc.clients[c2].SLO) <=> AllBelow(c1, c2)
    /\ (nc.clients[c1].SLO = nc.clients[c2].SLO) => AllSame(c1, c2)

\* C7 as stated: after configurePrioritiesBySLO, for any two clients c1 and
\* c2, SLO(c1) < SLO(c2) if and only if every flow of c1 has a strictly
\* smaller priority number than every flow of c2, and equal SLOs imply the
\* same priority number for all their flows.
C7_AsStated ==
    Admitted =>
        \A c1, c2 \in DOMAIN nc.clients : c1 # c2 => OrdersAgree(c1, c2)

WithFlows == {c \in DOMAIN nc.clients : nc.clients[c].flowIds # <<>>}

\* C7 for clients that have flows: after configurePrioritiesBySLO, for any
\* two clients c1 and c2 that each have at least one flow, SLO(c1) < SLO(c2)
\* if and only if every flow of c1 has a strictly smaller priority number
\* than every flow of c2, and equal SLOs imply the same priority number.
C7_ClientsWithFlows ==
    Admitted => \A c1, c2 \in WithFlows : c1 # c2 => OrdersAgree(c1, c2)

C7_Witness ==
    /\ Admitted
    /\ \E c1, c2 \in WithFlows : nc.clients[c1].SLO < nc.clients[c2].SLO
    /\ \E c1, c2 \in WithFlows :
            c1 # c2 /\ nc.clients[c1].SLO = nc.clients[c2].SLO

\* the stability condition rhoA + rhoS < 0 fails for the latency bound of
\* flow f, at the parameters the bound is evaluated with
LatencyBoundOf(n, flow) ==
    IF Len(flow.queueIds) = 1 THEN OneHopBound(n, flow)
    ELSE TwoHopBound(n, flow, TRUE)
Unstable(n, f) ==
    /\ Len(n.flows[f].queueIds) \in {1, 2}
    /\ LatencyBoundOf(n, n.flows[f]).ok
    /\ LET bound == LatencyBoundOf(n, n.flows[f]).bound
       IN calcBound(bound.A, bound.p).rho + calcBound(bound.B, bound.q).rho >= 0

\* C8: a batch with a client whose latency bound is infinite because the
\* stability condition fails is not admitted: add_clients never returns
\* admitted = true for it.
C8_UnstableNeverAdmitted ==
    Admitted => \A c \in clientIds : \A f \in FlowsOf(nc, c) : ~Unstable(nc, f)

\* C9: each of the n flows of a client with SLO percentile P has
\* epsilon = (1 - P/100) / n.
C9_EpsilonSplitEqually ==
    \A c \in DOMAIN nc.clients : \A f \in FlowsOf(nc, c) :
        nc.flows[f].epsilon.num * FullPercentile * Len(nc.clients[c].flowIds)
            = (FullPercentile - nc.clients[c].SLOpercentile)
                * nc.flows[f].epsilon.den

\* no two entries of a map of registered objects have the same name
UniqueNames(objects) ==
    \A x, y \in DOMAIN objects : x # y => objects[x].name # objects[y].name

\* C10: in every reachable state no two registered flows, no two registered
\* clients and no two registered queues have the same name.
C10_NamesAreUnique ==
    /\ UniqueNames(nc.flows)
    /\ UniqueNames(nc.clients)
    /\ UniqueNames(nc.queues)

C10_Witness ==
    /\ result.op = "add_clients"
    /\ result.status = "SNC_ERR_FLOW_NAME_IN_USE"
    /\ Cardinality(DOMAIN nc.flows) >= 2
    /\ Cardinality(DOMAIN nc.queues) >= 2

-----------------------------------------------------------------------------
(* Names already in use *)

\* the (client, flow) positions of a clientInfos array that carry a flow name
NamedFlows(b) ==
    {p \in (1..Len(b)) \X (1..MaxFlowsPerClient) :
        /\ "flows" \in DOMAIN b[p[1]]
        /\ b[p[1]].flows # NotObjectArray
        /\ p[2] <= Len(b[p[1]].flows)
        /\ "name" \in DOMAIN b[p[1]].flows[p[2]]}

\* clientInfos b has a client name that is registered in n or occurs twice
\* in b
ClientNameTaken(n, b) ==
    /\ IsArray(b)
    /\ \E i \in 1..Len(b) :
        /\ "name" \in DOMAIN b[i]
        /\ \/ getClientIdByName(n, b[i].name) # InvalidClientId
           \/ \E j \in 1..Len(b) :
                j # i /\ "name" \in DOMAIN b[j] /\ b[j].name = b[i].name

\* clientInfos b has a flow name that is registered in n or occurs twice in b
FlowNameTaken(n, b) ==
    /\ IsArray(b)
    /\ \E p \in NamedFlows(b) :
        \/ getFlowIdByName(n, b[p[1]].flows[p[2]].name) # InvalidFlowId
        \/ \E r \in NamedFlows(b) :
            r # p /\ b[r[1]].flows[r[2]].name = b[p[1]].flows[p[2]].name

InUse == {"SNC_ERR_CLIENT_NAME_IN_USE", "SNC_ERR_FLOW_NAME_IN_USE"}

\* what add_clients answers on b in the current state is a refusal that
\* leaves the registry and the store alone, with a status in statuses
RefusedUntouched(b, statuses) ==
    LET Holds(r) ==
            /\ r.ok
            /\ r.result.status \in statuses
            /\ ~r.result.admitted
            /\ r.nc = nc
            /\ r.clientInfoStore = clientInfoStore
    IN Holds(snc_meister_add_clients_svc(nc, clientInfoStore, b, TRUE))

\* C11 as stated: add_clients on a batch with a client name or flow name
\* that is registered or occurs twice in the batch returns
\* CLIENT_NAME_IN_USE or FLOW_NAME_IN_USE with admitted = false, and
\* inserts nothing.
C11_AsStated ==
    \A b \in Batches :
        (ClientNameTaken(nc, b) \/ FlowNameTaken(nc, b))
            => RefusedUntouched(b, InUse)

\* every field validation reads is present and valid in each client and
\* flow of b, and every queue named exists in n
WellFormedFlow(n, flowInfo) ==
    /\ {"name", "queues", "arrivalInfo"} \subseteq DOMAIN flowInfo
    /\ flowInfo.queues # NotStringArray
    /\ \A index \in 1..Len(flowInfo.queues) :
            getQueueIdByName(n, flowInfo.queues[index]) # InvalidQueueId
WellFormedClient(n, clientInfo) ==
    /\ {"name", "SLO", "flows"} \subseteq DOMAIN clientInfo
    /\ clientInfo.SLO > 0
    /\ "SLOpercentile" \in DOMAIN clientInfo =>
            (0 < clientInfo.SLOpercentile
                /\ clientInfo.SLOpercentile < FullPercentile)
    /\ clientInfo.flows # NotObjectArray
    /\ \A k \in 1..Len(clientInfo.flows) :
            WellFormedFlow(n, clientInfo.flows[k])
WellFormed(n, b) == \A i \in 1..Len(b) : WellFormedClient(n, b[i])

ErrorStatuses ==
    InUse \cup {"SNC_ERR_MISSING_ARGUMENT", "SNC_ERR_INVALID_ARGUMENT",
                "SNC_ERR_QUEUE_NAME_NONEXISTENT"}

\* C11, with the status of the first defect: add_clients on a batch with a
\* client name or flow name that is registered or occurs twice in the batch
\* returns an error status with admitted = false and inserts nothing; the
\* status is CLIENT_NAME_IN_USE or FLOW_NAME_IN_USE when the batch has no
\* other defect.
C11_FirstDefectWins ==
    \A b \in Batches :
        (ClientNameTaken(nc, b) \/ FlowNameTaken(nc, b)) =>
            /\ RefusedUntouched(b, ErrorStatuses)
            /\ WellFormed(nc, b) => RefusedUntouched(b, InUse)

C11_Witness ==
    /\ result.op = "add_clients"
    /\ result.status = "SNC_ERR_CLIENT_NAME_IN_USE"
    /\ ~result.admitted
    /\ ClientNameTaken(nc, <<ClientA, ClientA>>)
    /\ FlowNameTaken(nc, <<ClientA, ClientCDupFlow>>)
    /\ DOMAIN nc.clients # {}

-----------------------------------------------------------------------------
(* Queue paths *)

\* C12: every registered flow has a queue path with at least one queue, and
\* every queue id on the path is the id of a queue, not InvalidQueueId; a
\* flow whose queues list is empty or names a missing queue never enters
\* the registry.
C12_FlowsHavePaths ==
    \A f \in DOMAIN nc.flows :
        /\ Len(nc.flows[f].queueIds) >= 1
        /\ \A index \in 1..Len(nc.flows[f].queueIds) :
                nc.flows[f].queueIds[index] # InvalidQueueId

\* the queue ids on the paths of the registered flows of n
QueuesOnPaths(n) ==
    UNION {Range(n.flows[f].queueIds) : f \in DOMAIN n.flows}

\* a del_queue step (the server still runs after it) that succeeds removes one queue, which is on no path,
\* and nothing else; one that answers QUEUE_HAS_ACTIVE_FLOWS changes nothing
DelQueueStep ==
    /\ (running' /\ result'.op = "del_queue"
            /\ result'.status = "SNC_SUCCESS") =>
            /\ \E q \in DOMAIN nc.queues \ QueuesOnPaths(nc) :
                    /\ DOMAIN nc'.queues = DOMAIN nc.queues \ {q}
                    /\ \A o \in DOMAIN nc'.queues : nc'.queues[o] = nc.queues[o]
            /\ nc'.flows = nc.flows
            /\ nc'.clients = nc.clients
    /\ (result'.op = "del_queue"
            /\ result'.status = "SNC_ERR_QUEUE_HAS_ACTIVE_FLOWS") =>
            /\ nc' = nc
            /\ clientInfoStore' = clientInfoStore

\* C13: del_queue removes a queue only when no flow's path references it,
\* and otherwise answers QUEUE_HAS_ACTIVE_FLOWS and changes nothing; so in
\* every reachable state every queue id on every registered flow's path is
\* the id of a queue in the registry.
C13_PathsKeepTheirQueues ==
    /\ [](QueuesOnPaths(nc) \subseteq DOMAIN nc.queues)
    /\ [][DelQueueStep]_vars

C13_Witness ==
    /\ result.op = "del_queue"
    /\ result.status = "SNC_ERR_QUEUE_HAS_ACTIVE_FLOWS"
    /\ QueuesOnPaths(nc) # {}
    /\ DOMAIN nc.queues \ QueuesOnPaths(nc) # {}

-----------------------------------------------------------------------------
(* Deleting a client *)

\* map m2 is map m without the keys whose value is in gone
WithoutValues(m, m2, gone) ==
    /\ DOMAIN m2 = {k \in DOMAIN m : m[k] \notin gone}
    /\ \A k \in DOMAIN m2 : m2[k] = m[k]

\* registry n2 is registry n without client c: c, its flows, their names and
\* their entries in the queues' flow lists are gone, the rest is the same
AfterDelClient(n, n2, c) ==
    LET gone == Range(n.clients[c].flowIds)
        Keep(e) == e.flowId \notin gone
    IN /\ DOMAIN n2.flows = DOMAIN n.flows \ gone
       /\ \A f \in DOMAIN n2.flows : n2.flows[f] = n.flows[f]
       /\ DOMAIN n2.clients = DOMAIN n.clients \ {c}
       /\ \A d \in DOMAIN n2.clients : n2.clients[d] = n.clients[d]
       /\ WithoutValues(n.flowIds, n2.flowIds, gone)
       /\ WithoutValues(n.clientIds, n2.clientIds, {c})
       /\ n2.queueIds = n.queueIds
       /\ DOMAIN n2.queues = DOMAIN n.queues
       /\ \A q \in DOMAIN n.queues :
            n2.queues[q] = [n.queues[q] EXCEPT
                                !.flows = SelectSeq(n.queues[q].flows, Keep)]

\* C14: after delClient(c), as del_client calls it, none of c's flows is in
\* the flow maps or in a queue's flow list, c's client name and flow names
\* resolve to no id, and every other client, flow and queue-list entry is
\* as before.
C14_DelClientRemovesOnlyTheClient ==
    [][(running' /\ result'.op = "del_client"
            /\ result'.status = "SNC_SUCCESS") =>
        \E c \in DOMAIN nc.clients : AfterDelClient(nc, nc', c)]_vars

\* a client with flows has been deleted while another client's flows stay
\* in a queue
C14_Witness ==
    /\ result.op = "del_client"
    /\ result.status = "SNC_SUCCESS"
    /\ nc.nextFlowId > 2
    /\ Cardinality(DOMAIN nc.flows) < nc.nextFlowId - 1
    /\ \E q \in DOMAIN nc.queues : nc.queues[q].flows # <<>>

-----------------------------------------------------------------------------
(* Messages to the enforcer *)

\* the stored flowInfo objects, of the clients in ids, that carry
\* enforcerAddr, dstAddr and srcAddr
AddressedFlows(store, ids) ==
    {flowInfo \in UNION {Range(store[c].flows) : c \in ids \cap DOMAIN store} :
        HasAddresses(flowInfo)}

UpdateFor(n, flowInfo) ==
    [rpc |-> "updateClient", enforcerAddr |-> flowInfo.enforcerAddr,
     dstAddr |-> flowInfo.dstAddr, srcAddr |-> flowInfo.srcAddr,
     priority |-> n.flows[getFlowIdByName(n, flowInfo.name)].priority]

RemovalFor(flowInfo) ==
    [rpc |-> "removeClient", enforcerAddr |-> flowInfo.enforcerAddr,
     dstAddr |-> flowInfo.dstAddr, srcAddr |-> flowInfo.srcAddr]

\* the messages msgs are exactly the messages wanted, each once
ExactlyOnce(msgs, wanted) ==
    /\ Len(msgs) = Cardinality(wanted)
    /\ Range(msgs) = wanted

\* what a step of the running server sends, by the RPC it handled
EnforcerStep ==
    running' =>
        CASE result'.op = "add_clients" /\ result'.admitted ->
                ExactlyOnce(sent',
                    {UpdateFor(nc', flowInfo) :
                        flowInfo \in AddressedFlows(clientInfoStore',
                                                    clientIds')})
          [] result'.op = "del_client" /\ result'.status = "SNC_SUCCESS" ->
                ExactlyOnce(sent',
                    {RemovalFor(flowInfo) :
                        flowInfo \in AddressedFlows(clientInfoStore,
                            DOMAIN clientInfoStore
                                \ DOMAIN clientInfoStore')})
          [] OTHER -> sent' = <<>>

\* C15: an admitted add_clients sends one update, with the flow's registry
\* priority, for each flow of the batch that carries enforcerAddr, dstAddr
\* and srcAddr; a del_client of a registered client sends one removal for
\* each such flow of the client; every other call, a refused add_clients
\* and a del_client of an unknown name among them, sends nothing.
C15_EnforcerMessages == [][EnforcerStep]_vars

\* an admitted batch of two clients has sent two updates, one of them for a
\* flow whose priority is not the default; the batch also has a flow without
\* addresses
C15_Witness ==
    /\ Admitted
    /\ Len(sent) = 2
    /\ \E i \in 1..Len(sent) : sent[i].priority > 1
    /\ \E c \in clientIds : \E f \in Range(clientInfoStore[c].flows) :
            ~HasAddresses(f)

-----------------------------------------------------------------------------
(* Priorities across deletions and re-admissions *)

\* C16: in every state between RPCs, whatever add_clients and del_client
\* calls came before, any two registered clients x and y with
\* SLO(x) < SLO(y) have every flow of x at a strictly smaller priority
\* number than every flow of y; so it is after admit A, admit B, delete A
\* and re-admit A with an SLO below B's.
C16_PriorityFollowsSLO ==
    \A x, y \in DOMAIN nc.clients :
        nc.clients[x].SLO < nc.clients[y].SLO => AllBelow(x, y)

\* a client x with flows has just been admitted, after a client that was
\* added between y and x has gone, next to an incumbent y with flows and a
\* larger SLO
C16_Witness ==
    /\ Admitted
    /\ \E x \in clientIds \cap WithFlows : \E y \in WithFlows \ clientIds :
            /\ nc.clients[x].SLO < nc.clients[y].SLO
            /\ \E z \in (y + 1)..(x - 1) : z \notin DOMAIN nc.clients

-----------------------------------------------------------------------------
(* The Hoelder parameters of a DependencyParams *)

\* x > 1.0
AboveOne(x) == x \in {Huge, PosInf} \/ (x.k = "ratio" /\ x.num > x.den)

\* 1/p + 1/q = 1 for ratios p and q
ReciprocalsSumToOne(p, q) ==
    /\ p.k = "ratio" /\ q.k = "ratio"
    /\ p.den * q.num + q.den * p.num = p.num * q.num

\* p = q = 1, or p > 1 and q > 1 with 1/p + 1/q = 1
HoelderPair(d) ==
    \/ d.p = One /\ d.q = One
    \/ AboveOne(d.p) /\ AboveOne(d.q) /\ ReciprocalsSumToOne(d.p, d.q)

\* the last call was setP(x) or setQ(x) with x <= 1
SmallArgument == dpCall.op \in {"setP", "setQ"} /\ LessEqOne(dpCall.arg)

AllOne(d) ==
    /\ d.p = One /\ d.q = One
    /\ d.lowerP = One /\ d.upperP = One /\ d.lowerQ = One /\ d.upperQ = One

Degenerate(d) ==
    \/ d.p \in {Huge, PosInf} /\ d.q = One
    \/ d.q \in {Huge, PosInf} /\ d.p = One
    \/ d.p = NaN /\ d.q = NaN

\* the last setP or setQ, if any came after the last reset, had an argument
\* that is NaN, infinite or above 2^54
WildArgument == dpCall.op \in {"setP", "setQ"} /\ dpCall.arg \in {Huge, PosInf, NaN}

-----------------------------------------------------------------------------
(* Dependencies of the SNC operators *)

\* C17: for any two operators a and b, a.checkDependence(b) equals
\* b.checkDependence(a), and both are true exactly when the dependency sets
\* of a and b have a flow id in common.
C17_CheckDependenceIsIntersection ==
    \A a, b \in pool :
        /\ checkDependence(a, b) = checkDependence(b, a)
        /\ checkDependence(a, b) <=> a.dependencies \cap b.dependencies # {}

\* two operators share a flow id that is the smallest of neither, two have
\* nothing in common, and one has no dependencies
C17_Witness ==
    /\ \E a, b \in pool :
            /\ a.dependencies \cap b.dependencies # {}
            /\ a.dependencies \ b.dependencies # {}
            /\ b.dependencies \ a.dependencies # {}
    /\ \E a, b \in pool : a.dependencies = {} /\ b.dependencies # {}

\* C18: a composite operator built from X and Y has the dependency set
\* deps(X) \cup deps(Y); when deps(X) and deps(Y) have a flow id in common
\* it is marked dependent, with p = q = 2 as setDependent leaves them and
\* itself first in its list of dependent bounds, before those of X and of
\* Y; otherwise it has p = q = 1 and the dependent bounds of X and Y only.
C18_CompositeDependencies ==
    \A node \in pool :
        IsComposite(node) =>
            /\ node.dependencies
                    = node.A.dependencies \cup node.B.dependencies
            /\ IF node.A.dependencies \cap node.B.dependencies # {}
               THEN /\ Ratio(node.p, 1) = setDependent(DependencyParams).p
                    /\ Ratio(node.q, 1) = setDependent(DependencyParams).q
                    /\ node.p = 2 /\ node.q = 2
                    /\ node.dependentBounds
                            = <<Descr(node)>> \o node.A.dependentBounds
                                \o node.B.dependentBounds
               ELSE /\ node.p = 1 /\ node.q = 1
                    /\ node.dependentBounds
                            = node.A.dependentBounds \o node.B.dependentBounds

\* a dependent operator above a dependent operator
C18_Witness ==
    \E node \in pool :
        /\ IsComposite(node)
        /\ node.p = 2
        /\ IsComposite(node.A) /\ node.A.p = 2
        /\ Len(node.dependentBounds) >= 2

-----------------------------------------------------------------------------
(* The aggregate analysis of a flow that is alone on its queues *)

\* no other flow of registry n has a queue of flow f on its path
SharesNoQueue(n, f) ==
    \A g \in DOMAIN n.flows \ {f} :
        Range(n.flows[f].queueIds) \cap Range(n.flows[g].queueIds) = {}

\* the service term the analysis of flow f is to have
PlainService(n, f) ==
    LET queueIds == n.flows[f].queueIds
    IN IF Len(queueIds) = 1
       THEN ConstantService(n.queues[queueIds[1]].bandwidth)
       ELSE ConvolutionService(
                ConstantService(n.queues[queueIds[1]].bandwidth),
                ConstantService(n.queues[queueIds[2]].bandwidth))

\* the types of the operators in and below an operator
RECURSIVE NodeTypes(_)
NodeTypes(node) ==
    {node.type} \cup
        (IF IsComposite(node)
         THEN NodeTypes(node.A) \cup NodeTypes(node.B) ELSE {})

\* r is the outcome of the analysis of flow f: the analysis passed its
\* asserts and evaluates LatencyBound(arrival of f, PlainService, epsilon)
PlainBound(n, f, r) ==
    /\ r.ok
    /\ r.bound.type = "LatencyBound"
    /\ r.bound.A = ArrivalOf(n.flows[f])
    /\ r.bound.B = PlainService(n, f)
    /\ NodeTypes(r.bound) \cap
            {"LeftoverService", "AggregateArrival", "OutputArrival"} = {}

\* C20: under the aggregate analysis, for a registered flow f with one or
\* two hops that shares no queue with any other flow, the service term of
\* f's LatencyBound is ConstantService(bandwidth) for one hop and
\* ConvolutionService(ConstantService(bw1), ConstantService(bw2)) for two
\* hops, and no LeftoverService, AggregateArrival or OutputArrival is in
\* the bound.
C20_PlainServiceWhenAlone ==
    \A f \in DOMAIN nc.flows :
        SharesNoQueue(nc, f) =>
            /\ Len(nc.flows[f].queueIds) = 1 =>
                    PlainBound(nc, f, OneHopBound(nc, nc.flows[f]))
            /\ Len(nc.flows[f].queueIds) = 2 =>
                    \A oob \in BOOLEAN :
                        PlainBound(nc, f, TwoHopBound(nc, nc.flows[f], oob))

\* a one-hop flow and a two-hop flow, each alone on its queues, after a
\* batch was admitted
C20_Witness ==
    /\ Admitted
    /\ \E f, g \in DOMAIN nc.flows :
            /\ SharesNoQueue(nc, f) /\ Len(nc.flows[f].queueIds) = 1
            /\ SharesNoQueue(nc, g) /\ Len(nc.flows[g].queueIds) = 2

-----------------------------------------------------------------------------
(* The aggregate analysis runs to completion *)

\* every flow of registry n has one or two queues on its path
OneOrTwoHops(n) ==
    \A f \in DOMAIN n.flows : Len(n.flows[f].queueIds) \in {1, 2}

\* b is an array of well-formed clients whose flows have one or two queues
BatchOfOneOrTwoHops(n, b) ==
    /\ IsArray(b)
    /\ WellFormed(n, b)
    /\ \A i \in 1..Len(b) : \A k \in 1..Len(b[i].flows) :
            Len(b[i].flows[k].queues) \in {1, 2}

\* add_clients on batch b passes every assert of the analysis and reads no
\* vector past its end
AnalysisCompletes(b, oob) ==
    LET Completes(r) == r.ok /\ ~r.ub
    IN Completes(snc_meister_add_clients_svc(nc, clientInfoStore, b, oob))

\* C21: when every registered flow and every flow of the batch has one or
\* two queues on its path, the aggregate analysis that add_clients runs
\* passes all its assertions, stays inside its vectors and assigns a latency.
C21_AnalysisCompletes ==
    OneOrTwoHops(nc) =>
        \A b \in Batches :
            BatchOfOneOrTwoHops(nc, b) =>
                \A oob \in BOOLEAN : AnalysisCompletes(b, oob)

-----------------------------------------------------------------------------
(* The random search of dependencyOptimization *)

\* a dependent node as setDependent() leaves it: bracket [1.001, 2.0] on p
\* and on q, p = 2
FreshBracket(bound) ==
    /\ bound.lowerP = Ratio(1001, 1000) /\ bound.upperP = Ratio(2, 1)
    /\ bound.lowerQ = Ratio(1001, 1000) /\ bound.upperQ = Ratio(2, 1)
    /\ bound.p = Ratio(2, 1)

\* a step in which a call of dependencyOptimization starts its search
CallStep == search.pc = "idle" /\ search'.pc = "search"

\* C22: two consecutive calls of dependencyOptimization on the same
\* LatencyBound return the same latency, and each call starts from seed 1
\* and from bracket [1.001, 2.0] on p and q with p = 2 in every dependent
\* node.
C22_Repeatable ==
    /\ [](search.pc # "none" =>
            \A k, l \in 1..Len(search.returned) :
                search.returned[k] = search.returned[l])
    /\ [][CallStep =>
            /\ search'.next = Seed
            /\ \A index \in 1..Len(search.bounds) :
                    FreshBracket(search.bounds[index])]_vars


\* a step that is one trial of the search
TrialStep == search.pc = "search" /\ search'.iter = search.iter + 1

\* the p or the q of node new lies inside the bracket node old had
InsideBracket(old, new) ==
    \/ /\ ToGrid(old.lowerP) <= ToGrid(new.p)
       /\ ToGrid(new.p) <= ToGrid(old.upperP)
    \/ /\ ToGrid(old.lowerQ) <= ToGrid(new.q)
       /\ ToGrid(new.q) <= ToGrid(old.upperQ)

\* C26: each random trial of dependencyOptimization gives a new p or q,
\* inside its current bracket, to one dependent node, and leaves the p and q
\* of every other dependent node as they were.
C26_OneNodePerTrial ==
    [][TrialStep =>
        \E index \in 1..Len(search.bounds) :
            /\ InsideBracket(search.bounds[index], search'.bounds[index])
            /\ \A other \in 1..Len(search.bounds) \ {index} :
                    /\ search'.bounds[other].p = search.bounds[other].p
                    /\ search'.bounds[other].q = search.bounds[other].q]_vars

-----------------------------------------------------------------------------
(* The MGF of a flow that sends no request *)

\* C23: for every MGF type and every theta > 0, calcMGF(theta) returns
\* exactly 1 when the request probability p is 0.
C23_NoRequestGivesOne ==
    (mgf.type # "none" /\ mgf.call # NoCall) =>
        ((mgf.object.p = Ratio(0, 1) /\ mgf.call.p = Ratio(0, 1))
            => mgf.call.value = One)

-----------------------------------------------------------------------------
(* The hop-by-hop analysis of a target flow *)

\* the latency bounds of the run: one per hop of flow f, each with the
\* violation probability f.epsilon / hops, and their sum as the latency
BoundsPerHop(f, run) ==
    /\ Len(run.bounds) = Len(f.queueIds)
    /\ \A index \in 1..Len(run.bounds) :
            /\ run.bounds[index].type = "LatencyBound"
            /\ run.bounds[index].epsilon
                    = [num |-> f.epsilon.num,
                       den |-> f.epsilon.den * Len(f.queueIds)]
    /\ run.latency = SumLatencies(run.bounds, 1)
    /\ f.latency = run.latency

\* the flows processed before f are the flows g # f with a priority number
\* <= that of f, each once, in priorityCompare order, and f is last
ProcessedInOrder(n, f, run) ==
    LET before == SubSeq(run.sortedFlows, 1, Len(run.sortedFlows) - 1)
    IN /\ run.sortedFlows[Len(run.sortedFlows)] = f.flowId
       /\ Range(before) = {g \in DOMAIN n.flows :
                            n.flows[g].priority <= f.priority /\ g # f.flowId}
       /\ Len(before) = Cardinality(Range(before))
       /\ InPriorityOrder(n, before)

-----------------------------------------------------------------------------
(* aggregateArrivals *)

\* what the k-th arrival does to the groups: it is aggregated with the first
\* group whose dependency set shares no flow with its own, in an
\* AggregateArrival that is independent, or it opens a new group
FillsFirstFreeBucket(arrival, before, after) ==
    LET free == {g \in 1..Len(before) :
                    before[g].dependencies \cap arrival.dependencies = {}}
    IN IF free = {} THEN after = Append(before, arrival)
       ELSE LET g == Least(free)
            IN /\ Len(after) = Len(before)
               /\ \A h \in 1..Len(before) : h # g => after[h] = before[h]
               /\ after[g].type = "AggregateArrival"
               /\ after[g].A = arrival /\ after[g].B = before[g]
               /\ after[g].p = 1 /\ after[g].q = 1

\* C25: aggregateArrivals, scanning its input left to right, puts each
\* arrival into the first existing bucket whose current aggregate does not
\* depend on it and otherwise opens a new bucket; every AggregateArrival
\* created while filling buckets is independent (p = q = 1), and the
\* dependency set of the returned node is the union of the dependency sets
\* of all input arrivals.
C25_AggregateArrivals ==
    aggregation.op = "aggregateArrivals" =>
        LET arrivals == aggregation.arrivals
            arrivalGroups == aggregation.arrivalGroups
        IN /\ arrivalGroups[0] = <<>>
           /\ \A k \in 1..Len(arrivals) :
                FillsFirstFreeBucket(arrivals[k], arrivalGroups[k - 1],
                                     arrivalGroups[k])
           /\ aggregation.aggregate.dependencies
                = UNION {arrivals[k].dependencies : k \in 1..Len(arrivals)}

\* three arrivals, the third free to join either of two buckets, went into
\* the first, and a dependent arrival opened the second bucket
C25_Witness ==
    /\ aggregation.op = "aggregateArrivals"
    /\ Len(aggregation.arrivals) = 3
    /\ Len(aggregation.arrivalGroups[2]) = 2
    /\ Len(aggregation.arrivalGroups[3]) = 2
    /\ aggregation.arrivalGroups[3][1].type = "AggregateArrival"
    /\ aggregation.arrivalGroups[3][1].A = aggregation.arrivals[3]
    /\ aggregation.arrivalGroups[3][2].dependencies
            \cap aggregation.arrivals[3].dependencies = {}
    /\ aggregation.aggregate.p = 2

-----------------------------------------------------------------------------
(* NetEnforcer: one filter per client *)

\* the filters that match packets of the pair addr
FiltersOf(addr) ==
    SelectSeq(enforcer.filters, LAMBDA f : f.dst = addr[1] /\ f.src = addr[2])

\* every pair of g_clients has one filter, under its id, that sends its
\* packets to the class of the priority accepted last for it; ids are not
\* shared; other pairs have no filter
OneFilterPerClient ==
    /\ DOMAIN enforcer.accepted = DOMAIN enforcer.g_clients
    /\ \A addr \in DOMAIN enforcer.g_clients :
            /\ Len(FiltersOf(addr)) = 1
            /\ FiltersOf(addr)[1].parent = 1
            /\ FiltersOf(addr)[1].prio = enforcer.g_clients[addr].id
            /\ FiltersOf(addr)[1].flowid = <<1, enforcer.accepted[addr] + 1>>
            /\ \A other \in DOMAIN enforcer.g_clients :
                    other # addr =>
                        enforcer.g_clients[other].id # enforcer.g_clients[addr].id
    /\ \A addr \in Addrs \ DOMAIN enforcer.g_clients : Len(FiltersOf(addr)) = 0
    /\ Len(enforcer.filters) = Cardinality(DOMAIN enforcer.g_clients)

\* the updates of an RPC whose priority is below g_numPriorities
InRange(args) == SelectSeq(args, LAMBDA u : u.priority < g_numPriorities)

\* an update_clients RPC leaves the map and the filters as its updates with
\* a priority in range alone leave them
OutOfRangeIgnored ==
    (enforcer'.call.op = "update_clients" /\ enforcer' # enforcer) =>
        /\ enforcer'.g_clients
                = UpdateLoop(enforcer, InRange(enforcer'.call.args), 1).g_clients
        /\ enforcer'.filters
                = UpdateLoop(enforcer, InRange(enforcer'.call.args), 1).filters
        /\ InRange(enforcer'.call.args) = <<>> =>
                /\ enforcer'.g_clients = enforcer.g_clients
                /\ enforcer'.filters = enforcer.filters

\* C27: after any sequence of NetEnforcer updateClient and removeClient
\* calls, every (dstAddr, srcAddr) pair in the client map has exactly one TC
\* filter installed, under its own unique id and pointing at the class of
\* its most recently accepted priority, pairs not in the map have no filter,
\* and an update whose priority is >= numPriorities changes neither the map
\* nor the filters.
C27_OneFilterPerClient == []OneFilterPerClient /\ [][OutOfRangeIgnored]_vars

\* two clients, the first moved to another priority after the second was
\* added, and the RPC handled last carried an update out of range
C27_Witness ==
    /\ Len(enforcer.filters) = 2
    /\ enforcer.filters[1].prio = 2 /\ enforcer.filters[2].prio = 1
    /\ enforcer.call.op = "update_clients"
    /\ \E i \in 1..Len(enforcer.call.args) :
            enforcer.call.args[i].priority >= g_numPriorities

-----------------------------------------------------------------------------
(* The priority NetEnforcer holds for a flow *)

\* the updateClient RPCs among msgs for the addresses of flowInfo
UpdatesFor(msgs, flowInfo) ==
    SelectSeq(msgs, LAMBDA m :
        /\ m.rpc = "updateClient"
        /\ m.enforcerAddr = flowInfo.enforcerAddr
        /\ m.dstAddr = flowInfo.dstAddr /\ m.srcAddr = flowInfo.srcAddr)

\* the RPC handled in this step leaves the priority sent last for the flow
\* equal to its priority in the registry: it sent that priority, or it sent
\* nothing for a flow registered before whose priority it left alone
KeepsEnforcerInStep(flowInfo) ==
    LET updates == UpdatesFor(sent', flowInfo)
        before == getFlowIdByName(nc, flowInfo.name)
        after == getFlowIdByName(nc', flowInfo.name)
    IN /\ after # InvalidFlowId
       /\ IF updates # <<>>
          THEN updates[Len(updates)].priority = nc'.flows[after].priority
          ELSE /\ before # InvalidFlowId
               /\ nc.flows[before].priority = nc'.flows[after].priority

\* C28: after every completed add_clients or del_client RPC, for every
\* registered flow that carries enforcerAddr, dstAddr and srcAddr, the
\* priority most recently sent to the enforcer for that flow equals the
\* flow's current priority in the registry.
C28_EnforcerFollowsRegistry ==
    [][(running' /\ result'.op \in {"add_clients", "del_client"}
        /\ <<nc, clientInfoStore, result, sent>>
                # <<nc', clientInfoStore', result', sent'>>)
        => \A flowInfo \in AddressedFlows(clientInfoStore',
                                          DOMAIN clientInfoStore') :
                KeepsEnforcerInStep(flowInfo)]_vars

-----------------------------------------------------------------------------
(* Consistency of the registry *)

\* a name map is a bijection onto the ids of the record map, and every
\* record carries the name it is found under
NameBijection(names, records) ==
    /\ \A name \in DOMAIN names :
            names[name] \in DOMAIN records /\ records[names[name]].name = name
    /\ \A id \in DOMAIN records :
            records[id].name \in DOMAIN names /\ names[records[id].name] = id

\* the flowIds of every client are the flows that name it, each once
ClientsOwnTheirFlows(n) ==
    /\ \A c \in DOMAIN n.clients :
            /\ Range(n.clients[c].flowIds)
                    = {f \in DOMAIN n.flows : n.flows[f].clientId = c}
            /\ Len(n.clients[c].flowIds)
                    = Cardinality(Range(n.clients[c].flowIds))
    /\ \A f \in DOMAIN n.flows : n.flows[f].clientId \in DOMAIN n.clients

\* how often the entry (f, i) is in the flow list of queue q
Entries(n, q, f, i) ==
    Cardinality({k \in 1..Len(n.queues[q].flows) :
                    n.queues[q].flows[k] = [flowId |-> f, index |-> i]})

\* queue q lists (f, i) once when q is hop i of the path of f (counted from
\* 0), and lists nothing else
QueuesListTheirFlows(n) ==
    \A q \in DOMAIN n.queues :
        /\ \A k \in 1..Len(n.queues[q].flows) :
            LET entry == n.queues[q].flows[k]
            IN /\ entry.flowId \in DOMAIN n.flows
               /\ entry.index + 1 \in 1..Len(n.flows[entry.flowId].queueIds)
               /\ n.flows[entry.flowId].queueIds[entry.index + 1] = q
               /\ Entries(n, q, entry.flowId, entry.index) = 1
        /\ \A f \in DOMAIN n.flows :
            \A i \in 1..Len(n.flows[f].queueIds) :
                n.flows[f].queueIds[i] = q => Entries(n, q, f, i - 1) = 1

\* C29: in every state reachable through the four RPCs the registry is
\* internally consistent: each name map is a bijection onto the ids of the
\* corresponding record map with matching names, a client's flowIds are
\* exactly the flows whose clientId is that client, queue q's flow list
\* contains the entry (f, i) exactly once if and only if q is at position i
\* of flow f's path, and the client-info store has exactly the registered
\* client ids as keys.
C29_RegistryConsistent ==
    /\ NameBijection(nc.flowIds, nc.flows)
    /\ NameBijection(nc.clientIds, nc.clients)
    /\ NameBijection(nc.queueIds, nc.queues)
    /\ ClientsOwnTheirFlows(nc)
    /\ QueuesListTheirFlows(nc)
    /\ DOMAIN clientInfoStore = DOMAIN nc.clients


\* a del_client has removed one of several clients and a flow through two
\* queues is still registered
C29_Witness ==
    /\ result.op = "del_client" /\ result.status = "SNC_SUCCESS"
    /\ nc.nextClientId >= 3
    /\ \E f \in DOMAIN nc.flows : Len(nc.flows[f].queueIds) = 2
    /\ \E q \in DOMAIN nc.queues : Len(nc.queues[q].flows) >= 2

-----------------------------------------------------------------------------
(* The aggregate analysis when no dependencies are declared *)

\* the flows whose arrivals are the leaves of an operator, left to right
RECURSIVE LeafFlows(_)
LeafFlows(node) ==
    IF node.type = "MMBPArrival" THEN <<node.flowId>>
    ELSE IF node.type = "ConstantService" THEN <<>>
    ELSE LeafFlows(node.A) \o LeafFlows(node.B)

\* no node of the operator is dependent
RECURSIVE NoDependentNode(_)
NoDependentNode(node) ==
    /\ node.p = 1 /\ node.q = 1
    /\ node.type \in {"MMBPArrival", "ConstantService"}
            \/ (NoDependentNode(node.A) /\ NoDependentNode(node.B))

\* no client has declared a dependency: every arrival depends on its own
\* flow only
NoDeclaredDependencies(n) ==
    \A f \in DOMAIN n.flows : n.flows[f].arrival.dependencies = {f}

\* how often flow g is among the leaves
Occurrences(leaves, g) == Cardinality({k \in 1..Len(leaves) : leaves[k] = g})

\* the bound built for flow f holds every other arrival at most once and
\* the arrival of f as the arrival of the LatencyBound only, and
\* dependencyOptimization finds no dependent bound to search over
BoundIsIndependent(n, f, bound) ==
    /\ \A g \in DOMAIN n.flows \ {f} : Occurrences(LeafFlows(bound), g) <= 1
    /\ bound.A = ArrivalOf(n.flows[f])
    /\ Occurrences(LeafFlows(bound), f) = 1
    /\ NoDependentNode(bound)
    /\ bound.dependentBounds = <<>>

\* C30: when no client dependencies are declared, in the aggregate two-hop
\* analysis of any flow f each other flow's arrival appears at most once in
\* the constructed bound and f's own arrival appears only as the arrival of
\* the final LatencyBound, so no operator node is dependent and
\* dependencyOptimization returns without performing any random search.
C30_NoSearchWithoutDependencies ==
    NoDeclaredDependencies(nc) =>
        \A f \in DOMAIN nc.flows :
            Len(nc.flows[f].queueIds) = 2 =>
                \A oob \in BOOLEAN :
                    LET Holds(r) == r.ok => BoundIsIndependent(nc, f, r.bound)
                    IN Holds(TwoHopBound(nc, nc.flows[f], oob))

\* an admitted batch left a two-hop flow whose bound holds the arrivals of
\* three flows, none declared dependent
C30_Witness ==
    /\ Admitted
    /\ NoDeclaredDependencies(nc)
    /\ \E f \in DOMAIN nc.flows :
            /\ Len(nc.flows[f].queueIds) = 2
            /\ LET Rich(r) == r.ok /\ Len(LeafFlows(r.bound)) >= 3
               IN Rich(TwoHopBound(nc, nc.flows[f], FALSE))

====
